---- MODULE Spec2Model ----
(***************************************************************************)
(* Wallet ledger of business-cac: WalletService (services/wallet.service)  *)
(* running against the default MemoryDatabase store.                       *)
(*                                                                         *)
(* Every `await database.X(...)` of WalletService is one atomic step of    *)
(* the calling request; the code between two awaits touches only the       *)
(* request's locals and is folded into the step that follows the await.    *)
(* Several requests (Procs) run their steps interleaved.                   *)
(*                                                                         *)
(* Amounts are kobo, scaled down to small integers; every customer starts  *)
(* with the same signup balance (createCustomer), here OpeningBalance.     *)
(* Transaction ids are                                                     *)
(* positions in walletTransactions (the Map keeps insertion order, and     *)
(* createdAt is taken at insertion).  completedAt is modelled as "set /    *)
(* not set".  generateReference (timestamp + random suffix) is modelled as *)
(* a fresh value per call: the least serial no record or request holds.    *)
(* `returned` is what the step just taken handed back to its caller, if    *)
(* that step was the return (or throw) of a call.                          *)
(*                                                                         *)
(* PricingService (services/pricing.service) keeps a module-level cache    *)
(* (pricingCache, cacheLastUpdated) in front of the store's servicePricing *)
(* table; each of its awaits on the store is a step as well, and the       *)
(* expiry of CACHE_TTL_MS is a step of the environment.  `priced` is what  *)
(* the pricing step just taken returned.                                   *)
(*                                                                         *)
(* The wallet middleware (checkWalletBalance, chargeWallet) is one record  *)
(* per request in `req`: the pre-check with its two price lookups, the     *)
(* route handler's answer through res.json / res.send, and the charge      *)
(* that the overridden response methods start without waiting for it.      *)
(*                                                                         *)
(* adminCredit and adminDebit are the ledger's entry points for manual     *)
(* adjustments; a record keeps the adjustmentType of its metadata.  The    *)
(* revenue sums of the store overview, the admin overview and the admin    *)
(* transaction listing are operators over walletTransactions, with         *)
(* createdAt read as the record's position.                                *)
(*                                                                         *)
(* A store call that rejects is a step of its own (the _rejected steps):   *)
(* the await throws and the caller's code takes over from there.  A        *)
(* request path is the sequence of its '/' and '?' characters and of the   *)
(* runs of other characters between them; getServiceCodeFromEndpoint       *)
(* splits and searches that sequence as the code does the string.          *)
(***************************************************************************)
EXTENDS Integers, Sequences, FiniteSets, TLC

\* ---------------------------------------------------------------- bounds
MaxTxns == 3
MaxEntries == 2
MaxAmount == 1
OpeningBalance == 2
MaxPrice == 2

Procs == {"p1", "p2"}
Customers == {"c1"}
CustomerIds == Customers \cup {"nobody"}
Amounts == 1..MaxAmount
NoReference == <<"", 0>>
CallerRefs == {<<"REF", 1>>}
NoTxn == 0
ServiceCodes == {"name-search"}
Prices == 0..MaxPrice
\* the price every service is seeded with (DEFAULT_PRICING, scaled down)
SeedPrice == 2

VARIABLES walletBalance, walletTransactions, pc, call, returned,
          servicePricing, pricingCache, cacheLastUpdated, lookup, priced,
          req

ledgerVars == <<walletBalance, walletTransactions, pc, call, returned>>

pricingVars ==
  <<servicePricing, pricingCache, cacheLastUpdated, lookup, priced>>

vars == <<walletBalance, walletTransactions, pc, call, returned,
          servicePricing, pricingCache, cacheLastUpdated, lookup, priced,
          req>>

\* ------------------------------------------------------- pure helpers
UsedSerials ==
  {walletTransactions[i].reference[2] : i \in DOMAIN walletTransactions}
    \cup {call[q].reference[2] : q \in DOMAIN call}

generateReference(type) ==
  <<IF type = "credit" THEN "TXN_CR" ELSE "TXN_DR",
    CHOOSE n \in 1..(Cardinality(UsedSerials) + 1) : n \notin UsedSerials>>

InsufficientBalance_LE(balanceBefore, amountKobo) == balanceBefore <= amountKobo

InsufficientBalance(balanceBefore, amountKobo) == balanceBefore < amountKobo

DebitBalanceAfter_Unchanged(balanceBefore, amountKobo) == balanceBefore

DebitBalanceAfter(balanceBefore, amountKobo) == balanceBefore - amountKobo

CreditBalanceAfter_Minus(balanceBefore, amountKobo) == balanceBefore - amountKobo

CreditBalanceAfter(balanceBefore, amountKobo) == balanceBefore + amountKobo

ReservationCommitBalance_Before(transaction) == transaction.balanceBefore

ReservationCommitBalance(transaction) == transaction.balanceAfter

CancelledStatus_Completed == "completed"

CancelledStatus == "failed"

AlreadyRefunded(originalTxn) == originalTxn.status = "reversed"

IsPending_Any(transaction) == TRUE

IsPending(transaction) == transaction.status = "pending"

\* the shortfall an InsufficientBalanceError computes in its constructor
InsufficientBalanceError_shortfall_Swapped(requiredAmount, currentBalance) ==
  currentBalance - requiredAmount

InsufficientBalanceError_shortfall(requiredAmount, currentBalance) ==
  requiredAmount - currentBalance

\* ------------------------------------------------------- the store
getCustomer(customerId) == customerId \in DOMAIN walletBalance

updateCustomer(customerId, balance) ==
  [walletBalance EXCEPT ![customerId] = balance]

createWalletTransaction(data) ==
  Append(walletTransactions,
         [data EXCEPT !.completedAt = (data.status = "completed")])

getWalletTransaction(transactionId) ==
  IF transactionId \in DOMAIN walletTransactions THEN transactionId ELSE NoTxn

getWalletTransactionByReference_None(reference) == NoTxn

getWalletTransactionByReference(reference) ==
  LET hits == {i \in DOMAIN walletTransactions :
                 walletTransactions[i].reference = reference}
  IN IF hits = {} THEN NoTxn
     ELSE CHOOSE i \in hits : \A j \in hits : i <= j

updateWalletTransactionStatus_Rewrites(transactionId, status, completedAt) ==
  [walletTransactions EXCEPT
     ![transactionId].status = status,
     ![transactionId].completedAt =
        completedAt \/ (IF status = "completed" THEN TRUE ELSE @),
     ![transactionId].balanceAfter =
        walletBalance[walletTransactions[transactionId].customerId]]

updateWalletTransactionStatus(transactionId, status, completedAt) ==
  [walletTransactions EXCEPT
     ![transactionId].status = status,
     ![transactionId].completedAt =
        completedAt \/ (IF status = "completed" THEN TRUE ELSE @)]

\* ------------------------------------------------------- request locals
NewCall ==
  [op |-> "none", customerId |-> "nobody", amountKobo |-> 0,
   reference |-> NoReference, paymentMethod |-> "none",
   transactionId |-> NoTxn, originalTransactionId |-> NoTxn,
   balanceBefore |-> 0, balanceAfter |-> 0, adjustmentType |-> "none"]

\* what a call hands back: the name of its result (or of the error thrown),
\* the account it was about, the transaction and the newBalance.balanceKobo
\* of a DebitResult / CreditResult, and the requiredAmount, currentBalance
\* and shortfall of an InsufficientBalanceError
Returned(op, result, c) ==
  [op |-> op, result |-> result, customerId |-> c.customerId,
   transactionId |-> IF result = "ok" THEN c.transactionId ELSE NoTxn,
   balanceKobo |->
     IF result = "ok" /\ op \notin {"reserveBalance", "cancelReservation"}
     THEN c.balanceAfter ELSE 0,
   requiredAmount |->
     IF result = "InsufficientBalanceError" THEN c.amountKobo ELSE 0,
   currentBalance |->
     IF result = "InsufficientBalanceError" THEN c.balanceBefore ELSE 0,
   shortfall |->
     IF result = "InsufficientBalanceError"
     THEN InsufficientBalanceError_shortfall(c.amountKobo, c.balanceBefore)
     ELSE 0]

TransactionData(c, type, status) ==
  [customerId |-> c.customerId, type |-> type, amount |-> c.amountKobo,
   balanceBefore |-> c.balanceBefore, balanceAfter |-> c.balanceAfter,
   reference |-> c.reference, paymentMethod |-> c.paymentMethod,
   status |-> status, completedAt |-> FALSE,
   originalTransactionId |-> c.originalTransactionId,
   adjustmentType |-> c.adjustmentType]

NothingReturned == Returned("none", "none", NewCall)

Goto(p, label, c) ==
  /\ pc' = [pc EXCEPT ![p] = label]
  /\ call' = [call EXCEPT ![p] = c]
  /\ returned' = NothingReturned

Return(p, c, result) ==
  /\ pc' = [pc EXCEPT ![p] = "idle"]
  /\ call' = [call EXCEPT ![p] = NewCall]
  /\ returned' = Returned(c.op, result, c)

\* ------------------------------------------------------- pricing data
\* a ServicePricing record, or null (found = FALSE)
NoPricing == [found |-> FALSE, priceKobo |-> 0, isActive |-> FALSE]

Pricing(priceKobo, isActive) ==
  [found |-> TRUE, priceKobo |-> priceKobo, isActive |-> isActive]

EmptyMap == [code \in ServiceCodes |-> NoPricing]

\* pricingCache: null, or a Map from service code to record
NullCache == [isNull |-> TRUE, entries |-> EmptyMap]

MapCache(entries) == [isNull |-> FALSE, entries |-> entries]

\* getPrice's `pricing?.isActive ? pricing : null`
ActiveOrNull_Any(pricing) == pricing

ActiveOrNull(pricing) ==
  IF pricing.found /\ pricing.isActive THEN pricing ELSE NoPricing

\* getPriceKobo's `pricing?.priceKobo ?? 0`
PriceKoboOrZero(pricing) == IF pricing.found THEN pricing.priceKobo ELSE 0

\* the cache is consulted: it exists and is younger than CACHE_TTL_MS
CacheInUse_NoTtl == ~pricingCache.isNull

CacheInUse == ~pricingCache.isNull /\ cacheLastUpdated = "fresh"

NewLookup ==
  [op |-> "none", at |-> "idle", serviceCode |-> "", pricing |-> NoPricing,
   listed |-> EmptyMap]

\* what a pricing call hands back: for getPriceKobo the price, and whether
\* the answer came out of the cache
Priced(op, result, serviceCode, priceKobo, fromCache) ==
  [op |-> op, result |-> result, serviceCode |-> serviceCode,
   priceKobo |-> priceKobo, fromCache |-> fromCache]

NothingPriced == Priced("none", "none", "", 0, FALSE)

LookupGoto(p, label, l) ==
  /\ lookup' = [lookup EXCEPT ![p] = [l EXCEPT !.at = label]]
  /\ priced' = NothingPriced

LookupReturn(p, l, result, priceKobo, fromCache) ==
  /\ lookup' = [lookup EXCEPT ![p] = NewLookup]
  /\ priced' = Priced(l.op, result, l.serviceCode, priceKobo, fromCache)

\* ------------------------------------------------------- request data
\* a request path: its '/' and '?' characters and, between them, the runs
\* of other characters (so no two runs are neighbours)
Slash == "/"
QueryMark == "?"
Endpoints ==
  {<<Slash, "api", Slash, "v1", Slash, "business", Slash, "name-search">>,
   <<Slash>>}
NoServiceCode == ""
StatusCodes == {200, 500}
MaxPostChecks == 3
MaxRequests == 2

MaxPathLen == 5
PathWords == {"name-search", "business", "identity", "users", "42"}

Paths ==
  {e \in UNION {[1..n -> PathWords \cup {Slash, QueryMark}] :
                  n \in 0..MaxPathLen} :
     \A i \in 1..(Len(e) - 1) :
        ~(e[i] \in PathWords /\ e[i + 1] \in PathWords)}

KnownServiceCodes ==
  {"name-search", "name-registration", "company-registration",
   "drivers-license-verification", "passport-verification",
   "voters-card-verification", "passport-face-verification", "bvn-basic"}

\* /[0-9]/.test(segment), on the runs used here
ContainsDigit(segment) == segment \in {"v1", "42"}

First(S) == CHOOSE i \in S : \A j \in S : i <= j

\* endpoint.split('?')[0]
pathOnly(endpoint) ==
  LET marks == {i \in DOMAIN endpoint : endpoint[i] = QueryMark}
  IN IF marks = {} THEN endpoint
     ELSE SubSeq(endpoint, 1, First(marks) - 1)

\* pathOnly.split('/').filter(Boolean)
PathSegments(endpoint) ==
  SelectSeq(pathOnly(endpoint), LAMBDA t : t # Slash)

\* the same with the path convention tried before the known codes
getServiceCodeFromEndpoint_ConventionFirst(endpoint) ==
  LET segments == PathSegments(endpoint)
      known == {i \in DOMAIN segments : segments[i] \in KnownServiceCodes}
      business == {i \in DOMAIN segments : segments[i] = "business"}
      last == Len(segments)
  IN IF business # {} /\ last > First(business)
     THEN LET nextSegment == segments[First(business) + 1]
          IN IF nextSegment = "identity" /\ last > First(business) + 1
             THEN segments[First(business) + 2]
             ELSE nextSegment
     ELSE IF known # {} THEN segments[First(known)]
     ELSE IF last >= 2
     THEN IF ContainsDigit(segments[last]) THEN segments[last - 1]
          ELSE segments[last]
     ELSE IF last = 1 THEN segments[1] ELSE NoServiceCode

\* PricingService.getServiceCodeFromEndpoint (null: NoServiceCode)
getServiceCodeFromEndpoint(endpoint) ==
  LET segments == PathSegments(endpoint)
      known == {i \in DOMAIN segments : segments[i] \in KnownServiceCodes}
      business == {i \in DOMAIN segments : segments[i] = "business"}
      last == Len(segments)
  IN IF known # {} THEN segments[First(known)]
     ELSE IF business # {} /\ last > First(business)
     THEN LET nextSegment == segments[First(business) + 1]
          IN IF nextSegment = "identity" /\ last > First(business) + 1
             THEN segments[First(business) + 2]
             ELSE nextSegment
     ELSE IF last >= 2
     THEN IF ContainsDigit(segments[last]) THEN segments[last - 1]
          ELSE segments[last]
     ELSE IF last = 1 THEN segments[1] ELSE NoServiceCode

\* an amount of kobo shown in naira: kobo / 100
Naira(kobo) == <<kobo, 100>>

\* req.walletContext (set = FALSE: undefined)
NoContext ==
  [set |-> FALSE, priceKobo |-> 0, balanceBefore |-> 0, charged |-> FALSE,
   transactionId |-> NoTxn, chargeError |-> FALSE]

\* what the caller receives (status 0: nothing yet); details are those of
\* the 402 body
NoResponse ==
  [status |-> 0, body |-> "none", currentBalance |-> Naira(0),
   serviceCost |-> Naira(0), shortfall |-> Naira(0)]

\* the last logWalletOperation of the charge path
NoLog ==
  [type |-> "none", customerId |-> "nobody", priceKobo |-> 0,
   endpoint |-> <<>>, transactionId |-> NoTxn]

\* one request through walletMiddleware: the locals of checkWalletBalance
\* and canAffordService, req.walletContext, chargeWallet's hasCharged, and
\* counts of processCharge invocations and of debit calls it issued
NewRequest ==
  [stage |-> "none", customerId |-> "nobody", endpoint |-> <<>>,
   serviceCode |-> NoServiceCode, authBalance |-> 0, priceKobo |-> 0,
   balanceRead |-> FALSE, balance |-> 0, costRead |-> FALSE,
   serviceCost |-> 0, walletContext |-> NoContext, hasCharged |-> FALSE,
   downstreamRan |-> FALSE, statusCode |-> 0, response |-> NoResponse,
   postChecks |-> 0, debits |-> 0, log |-> NoLog, served |-> 0]

InFlight == {q \in Procs : pc[q] # "idle"}

AllIdle == InFlight = {}

\* room for one more record, and for one more record that is not a refund
\* (these two guards bound the model; the code has no such limit)
Writers(ops) == {q \in InFlight : call[q].op \in ops}

Entries ==
  {i \in DOMAIN walletTransactions :
     walletTransactions[i].originalTransactionId = NoTxn}

RoomForRefund ==
  Len(walletTransactions)
    + Cardinality(Writers({"debit", "credit", "reserveBalance", "refund"}))
    < MaxTxns

Room ==
  /\ RoomForRefund
  /\ Cardinality(Entries)
       + Cardinality(Writers({"debit", "credit", "reserveBalance"}))
       < MaxEntries

InitStore ==
  /\ walletBalance = [a \in Customers |-> OpeningBalance]
  /\ walletTransactions = <<>>
  /\ pc = [p \in Procs |-> "idle"]
  /\ call = [p \in Procs |-> NewCall]
  /\ returned = NothingReturned
  /\ servicePricing = [code \in ServiceCodes |-> Pricing(SeedPrice, TRUE)]
  /\ pricingCache = NullCache
  /\ cacheLastUpdated = "null"
  /\ lookup = [p \in Procs |-> NewLookup]
  /\ priced = NothingPriced

Init ==
  /\ InitStore
  /\ req = [p \in Procs |-> NewRequest]

\* a request with any path arrives
ResolveInit ==
  /\ InitStore
  /\ \E e \in Paths :
        req = [p \in Procs |->
                 IF p = "p1" THEN [NewRequest EXCEPT !.endpoint = e]
                 ELSE NewRequest]

\* ------------------------------------------------------- debit
\* the body of debit up to its second await; c0 carries the arguments
\* (options.metadata among them: its adjustmentType)
debit_getCustomer(p, c0, reference) ==
  IF ~getCustomer(c0.customerId)
  THEN Return(p, c0, "WalletNotFoundError")
  ELSE LET c1 == [c0 EXCEPT !.balanceBefore = walletBalance[c0.customerId]]
       IN IF InsufficientBalance(c1.balanceBefore, c0.amountKobo)
          THEN Return(p, c1, "InsufficientBalanceError")
          ELSE /\ Room
               /\ IF reference = NoReference
                  THEN Goto(p, "debit_getByReference",
                            [c1 EXCEPT !.reference = generateReference("debit")])
                  ELSE Goto(p, "debit_getByReference",
                            [c1 EXCEPT !.reference = reference])

debit(p, customerId, amountKobo, reference) ==
  /\ pc[p] = "idle"
  /\ debit_getCustomer(p, [NewCall EXCEPT !.op = "debit",
                                          !.customerId = customerId,
                                          !.amountKobo = amountKobo,
                                          !.paymentMethod = "api_charge"],
                       reference)
  /\ UNCHANGED <<walletBalance, walletTransactions>>

debit_getByReference(p) ==
  /\ pc[p] = "debit_getByReference"
  /\ IF getWalletTransactionByReference(call[p].reference) # NoTxn
     THEN Return(p, call[p], "DuplicateTransactionError")
     ELSE Goto(p, "debit_create", call[p])
  /\ UNCHANGED <<walletBalance, walletTransactions>>

debit_create(p) ==
  /\ pc[p] = "debit_create"
  /\ LET c == [call[p] EXCEPT !.balanceAfter =
                 DebitBalanceAfter(call[p].balanceBefore, call[p].amountKobo)]
     IN /\ walletTransactions' =
             createWalletTransaction(TransactionData(c, "debit", "completed"))
        /\ Goto(p, "debit_update",
                [c EXCEPT !.transactionId = Len(walletTransactions) + 1])
  /\ UNCHANGED <<walletBalance>>

debit_update(p) ==
  /\ pc[p] = "debit_update"
  /\ walletBalance' = updateCustomer(call[p].customerId, call[p].balanceAfter)
  /\ Return(p, call[p], "ok")
  /\ UNCHANGED <<walletTransactions>>

\* the store rejects the balance write (the await on updateCustomer throws):
\* debit has no catch, so the rejection is what its caller gets
DebitWriteRejected_Swallowed == "ok"

DebitWriteRejected == "StoreError"

debit_update_rejected(p) ==
  /\ pc[p] = "debit_update"
  /\ Return(p, call[p], DebitWriteRejected)
  /\ UNCHANGED <<walletBalance, walletTransactions>>

\* ------------------------------------------------------- credit
\* the body of credit up to its second await; c carries the arguments
credit_getCustomer(p, c, reference) ==
  IF ~getCustomer(c.customerId)
  THEN Return(p, c, "WalletNotFoundError")
  ELSE LET c1 == [c EXCEPT !.balanceBefore = walletBalance[c.customerId]]
       IN /\ Room \/ pc[p] # "idle"
          /\ IF reference = NoReference
             THEN /\ Goto(p, "credit_getByReference",
                          [c1 EXCEPT !.reference = generateReference("credit")])
             ELSE /\ Goto(p, "credit_getByReference",
                          [c1 EXCEPT !.reference = reference])
                 

credit(p, customerId, amountKobo, reference) ==
  /\ pc[p] = "idle"
  /\ credit_getCustomer(p, [NewCall EXCEPT !.op = "credit",
                                           !.customerId = customerId,
                                           !.amountKobo = amountKobo,
                                           !.paymentMethod = "card"],
                        reference)
  /\ UNCHANGED <<walletBalance, walletTransactions>>

credit_getByReference(p) ==
  /\ pc[p] = "credit_getByReference"
  /\ IF getWalletTransactionByReference(call[p].reference) # NoTxn
     THEN Return(p, call[p], "DuplicateTransactionError")
     ELSE Goto(p, "credit_create", call[p])
  /\ UNCHANGED <<walletBalance, walletTransactions>>

credit_create(p) ==
  /\ pc[p] = "credit_create"
  /\ LET c == [call[p] EXCEPT !.balanceAfter =
                 CreditBalanceAfter(call[p].balanceBefore, call[p].amountKobo)]
     IN /\ walletTransactions' =
             createWalletTransaction(TransactionData(c, "credit", "completed"))
        /\ Goto(p, "credit_update",
                [c EXCEPT !.transactionId = Len(walletTransactions) + 1])
  /\ UNCHANGED <<walletBalance>>

\* a credit called from refund resumes refund after its balance write
credit_update(p) ==
  /\ pc[p] = "credit_update"
  /\ walletBalance' = updateCustomer(call[p].customerId, call[p].balanceAfter)
  /\ IF call[p].op = "refund"
     THEN Goto(p, "refund_markReversed", call[p])
     ELSE Return(p, call[p], "ok")
  /\ UNCHANGED <<walletTransactions>>

\* ------------------------------------------------------- refund
refund(p, originalTransactionId) ==
  /\ pc[p] = "idle"
  /\ LET c0 == [NewCall EXCEPT !.op = "refund",
                               !.originalTransactionId = originalTransactionId]
     IN IF getWalletTransaction(originalTransactionId) = NoTxn
        THEN Return(p, c0, "TransactionNotFoundError")
        ELSE LET originalTxn == walletTransactions[originalTransactionId]
             IN IF originalTxn.type # "debit"
                THEN Return(p, c0, "InvalidTransactionError")
                ELSE IF AlreadyRefunded(originalTxn)
                THEN Return(p, c0, "DuplicateRefundError")
                ELSE /\ RoomForRefund
                     /\ Goto(p, "refund_credit",
                             [c0 EXCEPT !.customerId = originalTxn.customerId,
                                        !.amountKobo = originalTxn.amount,
                                        !.paymentMethod = "refund"])
  /\ UNCHANGED <<walletBalance, walletTransactions>>

refund_credit(p) ==
  /\ pc[p] = "refund_credit"
  /\ credit_getCustomer(p, call[p], NoReference)
  /\ UNCHANGED <<walletBalance, walletTransactions>>

refund_markReversed(p) ==
  /\ pc[p] = "refund_markReversed"
  /\ walletTransactions' = updateWalletTransactionStatus(
         call[p].originalTransactionId, "reversed", FALSE)
  /\ Return(p, call[p], "ok")
  /\ UNCHANGED <<walletBalance>>

\* the store rejects the status write (the await on
\* updateWalletTransactionStatus throws): refund has no catch and nothing
\* that undoes the credit, so the balances stay as the credit left them
BalancesAfterRejectedMark_RolledBack(c) ==
  updateCustomer(c.customerId, c.balanceBefore)

BalancesAfterRejectedMark(c) == walletBalance

refund_markReversed_rejected(p) ==
  /\ pc[p] = "refund_markReversed"
  /\ walletBalance' = BalancesAfterRejectedMark(call[p])
  /\ Return(p, call[p], "StoreError")
  /\ UNCHANGED <<walletTransactions>>

\* ------------------------------------------------------- admin adjustments
\* adminCredit is credit with paymentMethod 'admin' and the adjustment's
\* metadata, adminDebit is debit with the adjustment's metadata only
adminCredit(p, customerId, amountKobo) ==
  /\ pc[p] = "idle"
  /\ credit_getCustomer(p, [NewCall EXCEPT !.op = "credit",
                                           !.customerId = customerId,
                                           !.amountKobo = amountKobo,
                                           !.paymentMethod = "admin",
                                           !.adjustmentType = "credit"],
                        NoReference)
  /\ UNCHANGED <<walletBalance, walletTransactions>>

adminDebit(p, customerId, amountKobo) ==
  /\ pc[p] = "idle"
  /\ debit_getCustomer(p, [NewCall EXCEPT !.op = "debit",
                                          !.customerId = customerId,
                                          !.amountKobo = amountKobo,
                                          !.paymentMethod = "api_charge",
                                          !.adjustmentType = "debit"],
                       NoReference)
  /\ UNCHANGED <<walletBalance, walletTransactions>>

\* ------------------------------------------------------- reservations
reserveBalance(p, customerId, amountKobo) ==
  /\ pc[p] = "idle"
  /\ LET c0 == [NewCall EXCEPT !.op = "reserveBalance",
                               !.customerId = customerId,
                               !.amountKobo = amountKobo,
                               !.paymentMethod = "api_charge"]
     IN IF ~getCustomer(customerId)
        THEN Return(p, c0, "WalletNotFoundError")
        ELSE IF InsufficientBalance(walletBalance[customerId], amountKobo)
        THEN Return(p, [c0 EXCEPT !.balanceBefore = walletBalance[customerId]],
                    "InsufficientBalanceError")
            
        ELSE /\ Room
             /\ Goto(p, "reserve_create",
                     [c0 EXCEPT !.reference = generateReference("debit"),
                                !.balanceBefore = walletBalance[customerId],
                                !.balanceAfter = DebitBalanceAfter(
                                    walletBalance[customerId], amountKobo)])
  /\ UNCHANGED <<walletBalance, walletTransactions>>

reserve_create(p) ==
  /\ pc[p] = "reserve_create"
  /\ walletTransactions' =
       createWalletTransaction(TransactionData(call[p], "debit", "pending"))
  /\ Return(p, [call[p] EXCEPT !.transactionId = Len(walletTransactions) + 1],
            "ok")
  /\ UNCHANGED <<walletBalance>>

\* the guards shared by completeReservation and cancelReservation
reservation_get(p, op, transactionId, next) ==
  LET c0 == [NewCall EXCEPT !.op = op, !.transactionId = transactionId]
  IN IF getWalletTransaction(transactionId) = NoTxn
     THEN Return(p, c0, "TransactionNotFoundError")
     ELSE LET transaction == walletTransactions[transactionId]
          IN IF ~IsPending(transaction)
             THEN Return(p, c0, "InvalidTransactionStatusError")
             ELSE Goto(p, next,
                       [c0 EXCEPT !.customerId = transaction.customerId,
                                  !.amountKobo = transaction.amount,
                                  !.balanceBefore = transaction.balanceBefore,
                                  !.balanceAfter =
                                     ReservationCommitBalance(transaction)])

completeReservation(p, transactionId) ==
  /\ pc[p] = "idle"
  /\ reservation_get(p, "completeReservation", transactionId, "complete_update")
  /\ UNCHANGED <<walletBalance, walletTransactions>>

complete_update(p) ==
  /\ pc[p] = "complete_update"
  /\ walletBalance' = updateCustomer(call[p].customerId, call[p].balanceAfter)
  /\ Goto(p, "complete_mark", call[p])
  /\ UNCHANGED <<walletTransactions>>

complete_mark(p) ==
  /\ pc[p] = "complete_mark"
  /\ walletTransactions' = updateWalletTransactionStatus(
         call[p].transactionId, "completed", TRUE)
  /\ Return(p, call[p], "ok")
  /\ UNCHANGED <<walletBalance>>

cancelReservation(p, transactionId) ==
  /\ pc[p] = "idle"
  /\ reservation_get(p, "cancelReservation", transactionId, "cancel_mark")
  /\ UNCHANGED <<walletBalance, walletTransactions>>

cancel_mark(p) ==
  /\ pc[p] = "cancel_mark"
  /\ walletTransactions' = updateWalletTransactionStatus(
         call[p].transactionId, CancelledStatus, FALSE)
  /\ Return(p, call[p], "ok")
  /\ UNCHANGED <<walletBalance>>

\* ------------------------------------------------------- pricing
getPriceKobo(p, serviceCode) ==
  /\ lookup[p].at = "idle"
  /\ LET l == [NewLookup EXCEPT !.op = "getPriceKobo",
                                !.serviceCode = serviceCode]
         cached == pricingCache.entries[serviceCode]
     IN IF CacheInUse /\ cached.found
        THEN LookupReturn(p, l, "ok",
                          PriceKoboOrZero(ActiveOrNull(cached)), TRUE)
        ELSE LookupGoto(p, "getPrice_read", l)
  /\ UNCHANGED <<servicePricing, pricingCache, cacheLastUpdated>>

getPrice_read(p) ==
  /\ lookup[p].at = "getPrice_read"
  /\ LookupGoto(p, "getPrice_cache",
                [lookup[p] EXCEPT
                   !.pricing = servicePricing[lookup[p].serviceCode]])
  /\ UNCHANGED <<servicePricing, pricingCache, cacheLastUpdated>>

getPrice_cache(p) ==
  /\ lookup[p].at = "getPrice_cache"
  /\ LET l == lookup[p]
     IN /\ IF l.pricing.found
           THEN /\ pricingCache' =
                     MapCache([pricingCache.entries EXCEPT
                                 ![l.serviceCode] = l.pricing])
                /\ cacheLastUpdated' =
                     IF pricingCache.isNull THEN "fresh" ELSE cacheLastUpdated
           ELSE UNCHANGED <<pricingCache, cacheLastUpdated>>
        /\ LookupReturn(p, l, "ok",
                        PriceKoboOrZero(ActiveOrNull(l.pricing)), FALSE)
  /\ UNCHANGED servicePricing

listPricing(p, activeOnly) ==
  /\ lookup[p].at = "idle"
  /\ LookupGoto(p, "listPricing_cache",
                [NewLookup EXCEPT
                   !.op = "listPricing",
                   !.listed =
                      [code \in ServiceCodes |->
                         IF activeOnly THEN ActiveOrNull(servicePricing[code])
                         ELSE servicePricing[code]]])
  /\ UNCHANGED <<servicePricing, pricingCache, cacheLastUpdated>>

listPricing_cache(p) ==
  /\ lookup[p].at = "listPricing_cache"
  /\ pricingCache' = MapCache(lookup[p].listed)
  /\ cacheLastUpdated' = "fresh"
  /\ LookupReturn(p, lookup[p], "ok", 0, FALSE)
  /\ UNCHANGED servicePricing

updatePrice(p, serviceCode, priceKobo, isActive) ==
  /\ lookup[p].at = "idle"
  /\ LET l == [NewLookup EXCEPT !.op = "updatePrice",
                                !.serviceCode = serviceCode]
     IN IF ~servicePricing[serviceCode].found
        THEN /\ LookupReturn(p, l, "Error", 0, FALSE)
             /\ UNCHANGED servicePricing
        ELSE /\ servicePricing' =
                  [servicePricing EXCEPT
                     ![serviceCode] = Pricing(priceKobo, isActive)]
             /\ LookupGoto(p, "updatePrice_invalidate", l)
  /\ UNCHANGED <<pricingCache, cacheLastUpdated>>

updatePrice_invalidate(p) ==
  /\ lookup[p].at = "updatePrice_invalidate"
  /\ pricingCache' = NullCache
  /\ LookupReturn(p, lookup[p], "ok", 0, FALSE)
  /\ UNCHANGED <<servicePricing, cacheLastUpdated>>

createPricing(p, serviceCode, priceKobo, isActive) ==
  /\ lookup[p].at = "idle"
  /\ servicePricing' =
       [servicePricing EXCEPT ![serviceCode] = Pricing(priceKobo, isActive)]
  /\ LookupGoto(p, "createPricing_invalidate",
                [NewLookup EXCEPT !.op = "createPricing",
                                  !.serviceCode = serviceCode])
  /\ UNCHANGED <<pricingCache, cacheLastUpdated>>

createPricing_invalidate(p) ==
  /\ lookup[p].at = "createPricing_invalidate"
  /\ pricingCache' = NullCache
  /\ LookupReturn(p, lookup[p], "ok", 0, FALSE)
  /\ UNCHANGED <<servicePricing, cacheLastUpdated>>

deletePricing(p, serviceCode) ==
  /\ lookup[p].at = "idle"
  /\ servicePricing' = [servicePricing EXCEPT ![serviceCode] = NoPricing]
  /\ LookupGoto(p, "deletePricing_invalidate",
                [NewLookup EXCEPT !.op = "deletePricing",
                                  !.serviceCode = serviceCode])
  /\ UNCHANGED <<pricingCache, cacheLastUpdated>>

deletePricing_invalidate(p) ==
  /\ lookup[p].at = "deletePricing_invalidate"
  /\ pricingCache' = NullCache
  /\ LookupReturn(p, lookup[p], "ok", 0, FALSE)
  /\ UNCHANGED <<servicePricing, cacheLastUpdated>>

\* CACHE_TTL_MS goes by since cacheLastUpdated
cacheTtlElapses ==
  /\ cacheLastUpdated = "fresh"
  /\ cacheLastUpdated' = "expired"
  /\ UNCHANGED <<servicePricing, pricingCache, lookup, priced>>

\* ------------------------------------------------------- wallet middleware
\* next() out of checkWalletBalance: chargeWallet installs its res.json and
\* res.send overrides (hasCharged = false) and hands over to the route
ToDownstream(r, context) ==
  [r EXCEPT !.stage = "downstream", !.walletContext = context,
            !.hasCharged = FALSE]

\* canAffordService's result, and what checkWalletBalance does with it
canAfford(balanceKobo, serviceCost) == balanceKobo >= serviceCost

Shortfall(balanceKobo, serviceCost) ==
  IF canAfford(balanceKobo, serviceCost) THEN 0
  ELSE serviceCost - balanceKobo

Affordability(r) ==
  IF ~canAfford(r.balance, r.serviceCost)
  THEN [r EXCEPT
          !.stage = "done",
          !.response =
             [status |-> 402, body |-> "INSUFFICIENT_BALANCE",
              currentBalance |-> Naira(r.balance),
              serviceCost |-> Naira(r.serviceCost),
              shortfall |-> Naira(Shortfall(r.balance, r.serviceCost))]]
  ELSE ToDownstream(r, [NoContext EXCEPT !.set = TRUE,
                                         !.priceKobo = r.priceKobo,
                                         !.balanceBefore = r.balance])

\* requests so far (this count bounds the model; the code has no such limit)
RECURSIVE SumServed(_)
SumServed(S) ==
  IF S = {} THEN 0
  ELSE LET q == CHOOSE x \in S : TRUE IN req[q].served + SumServed(S \ {q})

RequestsServed == SumServed(Procs)

\* the lookup of request p has handed back its price in this step
LookupDone(p) == lookup'[p].at = "idle"

checkWalletBalance(p, customerId, endpoint) ==
  /\ req[p].stage \in {"none", "done"}
  /\ pc[p] = "idle" /\ lookup[p].at = "idle"
  /\ RequestsServed < MaxRequests
  /\ LET serviceCode == getServiceCodeFromEndpoint(endpoint)
         r == [NewRequest EXCEPT
                 !.served = req[p].served + 1,
                 !.customerId = customerId, !.endpoint = endpoint,
                 !.serviceCode = serviceCode,
                 !.authBalance = IF customerId \in Customers
                                 THEN walletBalance[customerId] ELSE 0]
     IN IF customerId \notin Customers
        THEN /\ req' = [req EXCEPT ![p] =
                          [r EXCEPT !.stage = "done",
                                    !.response.status = 401,
                                    !.response.body =
                                       "CUSTOMER_NOT_AUTHENTICATED"]]
             /\ UNCHANGED pricingVars
        ELSE IF serviceCode = NoServiceCode
        THEN /\ req' = [req EXCEPT ![p] = ToDownstream(r, NoContext)]
             /\ UNCHANGED pricingVars
        ELSE /\ getPriceKobo(p, serviceCode)
             /\ req' = [req EXCEPT ![p] =
                          IF LookupDone(p)
                          THEN [r EXCEPT !.stage = "priced",
                                         !.priceKobo = priced'.priceKobo]
                          ELSE [r EXCEPT !.stage = "getPriceKobo"]]
  /\ UNCHANGED ledgerVars

checkWalletBalance_getPriceKobo(p) ==
  /\ req[p].stage = "getPriceKobo"
  /\ getPrice_read(p) \/ getPrice_cache(p)
  /\ req' = [req EXCEPT ![p] =
               IF LookupDone(p)
               THEN [@ EXCEPT !.stage = "priced",
                              !.priceKobo = priced'.priceKobo]
               ELSE @]
  /\ UNCHANGED ledgerVars

\* the price is known: a free service goes through, any other starts
\* canAffordService, whose getBalance and getPriceKobo run side by side
checkWalletBalance_priced(p) ==
  /\ req[p].stage = "priced"
  /\ IF req[p].priceKobo = 0
     THEN /\ req' = [req EXCEPT ![p] =
                       ToDownstream(req[p],
                                    [NoContext EXCEPT
                                       !.set = TRUE,
                                       !.balanceBefore = req[p].authBalance])]
          /\ UNCHANGED pricingVars
     ELSE /\ getPriceKobo(p, req[p].serviceCode)
          /\ req' = [req EXCEPT ![p] =
                       [@ EXCEPT !.stage = "canAfford",
                                 !.costRead = LookupDone(p),
                                 !.serviceCost =
                                    IF LookupDone(p) THEN priced'.priceKobo
                                    ELSE 0]]
  /\ UNCHANGED ledgerVars

canAffordService_getBalance(p) ==
  /\ req[p].stage = "canAfford"
  /\ ~req[p].balanceRead
  /\ LET r == [req[p] EXCEPT !.balanceRead = TRUE,
                             !.balance = walletBalance[req[p].customerId]]
     IN req' = [req EXCEPT ![p] = IF r.costRead THEN Affordability(r) ELSE r]
  /\ UNCHANGED <<ledgerVars, pricingVars>>

canAffordService_getPriceKobo(p) ==
  /\ req[p].stage = "canAfford"
  /\ ~req[p].costRead
  /\ getPrice_read(p) \/ getPrice_cache(p)
  /\ LET r == IF LookupDone(p)
              THEN [req[p] EXCEPT !.costRead = TRUE,
                                  !.serviceCost = priced'.priceKobo]
              ELSE req[p]
     IN req' = [req EXCEPT ![p] =
                  IF r.costRead /\ r.balanceRead THEN Affordability(r) ELSE r]
  /\ UNCHANGED ledgerVars

\* the store rejects getPrice's read: the error leaves getPrice and
\* getPriceKobo, neither of which catches it; the cache is not touched
getPrice_read_rejected(p) ==
  /\ lookup[p].at = "getPrice_read"
  /\ LookupReturn(p, lookup[p], "StoreError", 0, FALSE)
  /\ UNCHANGED <<servicePricing, pricingCache, cacheLastUpdated>>

\* checkWalletBalance's catch branch: the error is logged and the request
\* is answered through http.serverError; next() is not called
BalanceCheckFailed_Open(r) == ToDownstream(r, NoContext)

BalanceCheckFailed(r) ==
  [r EXCEPT
     !.stage = "done",
     !.response = [NoResponse EXCEPT !.status = 500,
                                     !.body = "WALLET_CHECK_ERROR"],
     !.log = [NoLog EXCEPT !.type = "ERROR"]]

checkWalletBalance_getPriceKobo_rejected(p) ==
  /\ req[p].stage = "getPriceKobo"
  /\ getPrice_read_rejected(p)
  /\ req' = [req EXCEPT ![p] = BalanceCheckFailed(@)]
  /\ UNCHANGED ledgerVars

\* getBalance finds no customer (the account is gone since the request was
\* authenticated) or its read is rejected: WalletNotFoundError or the
\* store's error rejects the Promise.all of canAffordService at once, while
\* its getPriceKobo, if still on its way, runs on unobserved
canAffordService_getBalance_rejected(p) ==
  /\ req[p].stage = "canAfford"
  /\ ~req[p].balanceRead
  /\ req' = [req EXCEPT ![p] = BalanceCheckFailed(@)]
  /\ UNCHANGED <<ledgerVars, pricingVars>>

canAffordService_getPriceKobo_rejected(p) ==
  /\ req[p].stage = "canAfford"
  /\ ~req[p].costRead
  /\ getPrice_read_rejected(p)
  /\ req' = [req EXCEPT ![p] = BalanceCheckFailed(@)]
  /\ UNCHANGED ledgerVars

\* the getPriceKobo of a canAffordService that has already been rejected
canAffordService_getPriceKobo_unobserved(p) ==
  /\ req[p].stage = "done"
  /\ req[p].response.body = "WALLET_CHECK_ERROR"
  /\ getPrice_read(p) \/ getPrice_cache(p) \/ getPrice_read_rejected(p)
  /\ UNCHANGED <<req, ledgerVars>>

\* processCharge up to its await: the guards, then hasCharged = true and the
\* call of WalletService.debit, whose first store read comes later
SuccessStatus_Any(statusCode) == statusCode >= 200

SuccessStatus(statusCode) == statusCode >= 200 /\ statusCode < 300

\* `if (req.walletContext.priceKobo === 0) return true`
SkipFreeService_Never(priceKobo) == FALSE

SkipFreeService(priceKobo) == priceKobo = 0

\* `if (hasCharged) return true`
AlreadyCharged_Never(r) == FALSE

AlreadyCharged(r) == r.hasCharged

ShouldCharge(r) ==
  /\ ~AlreadyCharged(r)
  /\ r.walletContext.set /\ ~r.walletContext.charged
  /\ ~SkipFreeService(r.walletContext.priceKobo)
  /\ r.customerId \in Customers
  /\ SuccessStatus(r.statusCode)

processCharge(r) ==
  IF ShouldCharge(r)
  THEN [r EXCEPT !.postChecks = @ + 1, !.hasCharged = TRUE,
                 !.debits = @ + 1, !.stage = "charge"]
  ELSE [r EXCEPT !.postChecks = @ + 1]

\* the route answers through res.json (whose original hands the body to
\* res.send, the second override) or through res.send: each override starts
\* processCharge and, without waiting for it, hands the body to the original
res_send(r) ==
  [processCharge(r) EXCEPT
     !.response = [NoResponse EXCEPT !.status = r.statusCode,
                                     !.body = "downstream"]]

res_json(r) == res_send(processCharge(r))

routeHandler(p, statusCode, viaJson) ==
  /\ req[p].stage = "downstream"
  /\ LET r == [req[p] EXCEPT !.downstreamRan = TRUE, !.stage = "done",
                             !.statusCode = statusCode]
     IN req' = [req EXCEPT ![p] = IF viaJson THEN res_json(r) ELSE res_send(r)]
  /\ UNCHANGED <<ledgerVars, pricingVars>>

\* the request ends without the route producing a response
requestAborted(p) ==
  /\ req[p].stage = "downstream"
  /\ req' = [req EXCEPT ![p].stage = "done"]
  /\ UNCHANGED <<ledgerVars, pricingVars>>

\* the route calls res.send once more, the charge in flight or over
res_send_again(p) ==
  /\ req[p].stage \in {"charge", "done"}
  /\ req[p].response.body = "downstream"
  /\ req[p].postChecks < MaxPostChecks
  /\ req' = [req EXCEPT ![p] = processCharge(@)]
  /\ UNCHANGED <<ledgerVars, pricingVars>>

\* processCharge after a debit that returned: the context is annotated
ChargeSucceeded(r, transactionId) ==
  [r EXCEPT
     !.stage = "done",
     !.walletContext.charged = TRUE,
     !.walletContext.transactionId = transactionId,
     !.log = [type |-> "CHARGE", customerId |-> r.customerId,
              priceKobo |-> r.walletContext.priceKobo,
              endpoint |-> r.endpoint, transactionId |-> transactionId]]

\* processCharge's catch branch: CHARGE FAILED - REQUIRES RECONCILIATION
ChargeFailed_Silent(r) ==
  [r EXCEPT !.stage = "done", !.walletContext.chargeError = TRUE]

ChargeFailed(r) ==
  [r EXCEPT
     !.stage = "done",
     !.walletContext.chargeError = TRUE,
     !.log = [type |-> "ERROR", customerId |-> r.customerId,
              priceKobo |-> r.walletContext.priceKobo,
              endpoint |-> r.endpoint, transactionId |-> NoTxn]]

\* processCharge from its await on: the debit, then the success or the
\* catch branch
processCharge_debit(p) ==
  /\ req[p].stage = "charge"
  /\ \/ debit(p, req[p].customerId, req[p].walletContext.priceKobo,
              NoReference)
     \/ debit_getByReference(p)
     \/ debit_create(p)
     \/ debit_update(p)
  /\ req' = [req EXCEPT ![p] =
               IF pc'[p] # "idle" THEN req[p]
               ELSE IF returned'.result = "ok"
               THEN ChargeSucceeded(req[p], returned'.transactionId)
               ELSE ChargeFailed(req[p])]
  /\ UNCHANGED pricingVars

\* the debit of processCharge ends with its balance write rejected
processCharge_debit_rejected(p) ==
  /\ req[p].stage = "charge"
  /\ debit_update_rejected(p)
  /\ req' = [req EXCEPT ![p] =
               IF returned'.result = "ok"
               THEN ChargeSucceeded(req[p], returned'.transactionId)
               ELSE ChargeFailed(req[p])]
  /\ UNCHANGED pricingVars

\* ------------------------------------------------------- specifications
References == CallerRefs \cup {NoReference}
TxnIds == 0..MaxTxns

\* the ledger called directly: pricing and requests stay as they are
LedgerOnly == UNCHANGED <<pricingVars, req>>

Call(p) ==
  \/ \E a \in CustomerIds, k \in Amounts, r \in References :
        debit(p, a, k, r) /\ LedgerOnly
  \/ \E a \in CustomerIds, k \in Amounts, r \in References :
        credit(p, a, k, r) /\ LedgerOnly
  \/ \E t \in TxnIds : refund(p, t) /\ LedgerOnly
  \/ \E a \in CustomerIds, k \in Amounts :
        reserveBalance(p, a, k) /\ LedgerOnly
  \/ \E t \in TxnIds : completeReservation(p, t) /\ LedgerOnly
  \/ \E t \in TxnIds : cancelReservation(p, t) /\ LedgerOnly

Step(p) ==
  \/ debit_getByReference(p) /\ LedgerOnly
  \/ debit_create(p) /\ LedgerOnly
  \/ debit_update(p) /\ LedgerOnly
  \/ credit_getByReference(p) /\ LedgerOnly
  \/ credit_create(p) /\ LedgerOnly
  \/ credit_update(p) /\ LedgerOnly
  \/ refund_credit(p) /\ LedgerOnly
  \/ refund_markReversed(p) /\ LedgerOnly
  \/ reserve_create(p) /\ LedgerOnly
  \/ complete_update(p) /\ LedgerOnly
  \/ complete_mark(p) /\ LedgerOnly
  \/ cancel_mark(p) /\ LedgerOnly

\* requests of several callers interleave at every await
Next == \E p \in Procs : Call(p) \/ Step(p)

Spec == Init /\ [][Next]_vars

\* one caller, whose every call returns before its next one starts
SeqNext == Call("p1") \/ Step("p1")

SeqSpec == Init /\ [][SeqNext]_vars

\* concurrent callers that issue nothing but debit
DebitNext ==
  \E p \in Procs :
     \/ \E a \in CustomerIds, k \in Amounts, r \in References :
           debit(p, a, k, r) /\ LedgerOnly
     \/ debit_getByReference(p) /\ LedgerOnly
     \/ debit_create(p) /\ LedgerOnly
     \/ debit_update(p) /\ LedgerOnly

DebitSpec == Init /\ [][DebitNext]_vars

\* one caller and one administrator, one call at a time: top-ups, charges,
\* refunds and the administrator's adjustments
AdminSeqNext ==
  \/ \E a \in CustomerIds, k \in Amounts, r \in References :
        credit("p1", a, k, r) /\ LedgerOnly
  \/ \E a \in CustomerIds, k \in Amounts, r \in References :
        debit("p1", a, k, r) /\ LedgerOnly
  \/ \E a \in CustomerIds, k \in Amounts : adminCredit("p1", a, k) /\ LedgerOnly
  \/ \E a \in CustomerIds, k \in Amounts : adminDebit("p1", a, k) /\ LedgerOnly
  \/ \E t \in TxnIds : refund("p1", t) /\ LedgerOnly
  \/ debit_getByReference("p1") /\ LedgerOnly
  \/ debit_create("p1") /\ LedgerOnly
  \/ debit_update("p1") /\ LedgerOnly
  \/ credit_getByReference("p1") /\ LedgerOnly
  \/ credit_create("p1") /\ LedgerOnly
  \/ credit_update("p1") /\ LedgerOnly
  \/ refund_credit("p1") /\ LedgerOnly
  \/ refund_markReversed("p1") /\ LedgerOnly

AdminSeqSpec == Init /\ [][AdminSeqNext]_vars

\* one caller that holds funds and charges, one call at a time, with any
\* amount up to the opening balance
HoldAmounts == 1..OpeningBalance

HoldSeqNext ==
  \/ \E a \in Customers, k \in HoldAmounts :
        reserveBalance("p1", a, k) /\ LedgerOnly
  \/ \E a \in Customers, k \in HoldAmounts :
        debit("p1", a, k, NoReference) /\ LedgerOnly
  \/ \E t \in TxnIds : completeReservation("p1", t) /\ LedgerOnly
  \/ \E t \in TxnIds : cancelReservation("p1", t) /\ LedgerOnly
  \/ reserve_create("p1") /\ LedgerOnly
  \/ debit_getByReference("p1") /\ LedgerOnly
  \/ debit_create("p1") /\ LedgerOnly
  \/ debit_update("p1") /\ LedgerOnly
  \/ complete_update("p1") /\ LedgerOnly
  \/ complete_mark("p1") /\ LedgerOnly
  \/ cancel_mark("p1") /\ LedgerOnly

HoldSeqSpec == Init /\ [][HoldSeqNext]_vars

\* one caller that charges and refunds, one call at a time, against a store
\* that may reject the status write of a refund
FaultRefundSeqNext ==
  \/ \E a \in CustomerIds, k \in Amounts, r \in References :
        debit("p1", a, k, r) /\ LedgerOnly
  \/ \E t \in TxnIds : refund("p1", t) /\ LedgerOnly
  \/ debit_getByReference("p1") /\ LedgerOnly
  \/ debit_create("p1") /\ LedgerOnly
  \/ debit_update("p1") /\ LedgerOnly
  \/ refund_credit("p1") /\ LedgerOnly
  \/ credit_getByReference("p1") /\ LedgerOnly
  \/ credit_create("p1") /\ LedgerOnly
  \/ credit_update("p1") /\ LedgerOnly
  \/ refund_markReversed("p1") /\ LedgerOnly
  \/ refund_markReversed_rejected("p1") /\ LedgerOnly

FaultRefundSeqSpec == Init /\ [][FaultRefundSeqNext]_vars

\* one caller and one administrator, one call at a time, passing any integer
\* as the amount: negative, zero or positive
SignedAmounts == (0 - MaxAmount)..MaxAmount

SignedSeqNext ==
  \/ \E a \in Customers, k \in SignedAmounts :
        debit("p1", a, k, NoReference) /\ LedgerOnly
  \/ \E a \in Customers, k \in SignedAmounts :
        credit("p1", a, k, NoReference) /\ LedgerOnly
  \/ \E a \in Customers, k \in SignedAmounts :
        reserveBalance("p1", a, k) /\ LedgerOnly
  \/ \E a \in Customers, k \in SignedAmounts :
        adminCredit("p1", a, k) /\ LedgerOnly
  \/ \E a \in Customers, k \in SignedAmounts :
        adminDebit("p1", a, k) /\ LedgerOnly
  \/ \E t \in TxnIds : completeReservation("p1", t) /\ LedgerOnly
  \/ debit_getByReference("p1") /\ LedgerOnly
  \/ debit_create("p1") /\ LedgerOnly
  \/ debit_update("p1") /\ LedgerOnly
  \/ credit_getByReference("p1") /\ LedgerOnly
  \/ credit_create("p1") /\ LedgerOnly
  \/ credit_update("p1") /\ LedgerOnly
  \/ reserve_create("p1") /\ LedgerOnly
  \/ complete_update("p1") /\ LedgerOnly
  \/ complete_mark("p1") /\ LedgerOnly

SignedSeqSpec == Init /\ [][SignedSeqNext]_vars

\* the pricing service called directly, by callers and administrators
PricingOnly == UNCHANGED <<ledgerVars, req>>

PricingCall(p) ==
  \/ \E code \in ServiceCodes : getPriceKobo(p, code) /\ PricingOnly
  \/ \E activeOnly \in BOOLEAN : listPricing(p, activeOnly) /\ PricingOnly
  \/ \E code \in ServiceCodes, k \in Prices, a \in BOOLEAN :
        updatePrice(p, code, k, a) /\ PricingOnly
  \/ \E code \in ServiceCodes, k \in Prices, a \in BOOLEAN :
        createPricing(p, code, k, a) /\ PricingOnly
  \/ \E code \in ServiceCodes : deletePricing(p, code) /\ PricingOnly

PricingStep(p) ==
  \/ getPrice_read(p) /\ PricingOnly
  \/ getPrice_cache(p) /\ PricingOnly
  \/ listPricing_cache(p) /\ PricingOnly
  \/ updatePrice_invalidate(p) /\ PricingOnly
  \/ createPricing_invalidate(p) /\ PricingOnly
  \/ deletePricing_invalidate(p) /\ PricingOnly

TtlElapses == cacheTtlElapses /\ PricingOnly

PricingNext ==
  \/ \E p \in Procs : PricingCall(p) \/ PricingStep(p)
  \/ TtlElapses

PricingSpec == Init /\ [][PricingNext]_vars

\* one pricing caller at a time
PricingSeqNext == PricingCall("p1") \/ PricingStep("p1") \/ TtlElapses

PricingSeqSpec == Init /\ [][PricingSeqNext]_vars

\* requests through walletMiddleware
RequestStep(p) ==
  \/ \E a \in CustomerIds, e \in Endpoints : checkWalletBalance(p, a, e)
  \/ checkWalletBalance_getPriceKobo(p)
  \/ checkWalletBalance_priced(p)
  \/ canAffordService_getBalance(p)
  \/ canAffordService_getPriceKobo(p)
  \/ \E statusCode \in StatusCodes, viaJson \in BOOLEAN :
        routeHandler(p, statusCode, viaJson)
  \/ requestAborted(p)
  \/ res_send_again(p)
  \/ processCharge_debit(p)

\* requests of several customers' callers, interleaved at every await
RequestNext ==
  \/ \E p \in Procs : RequestStep(p)
  \/ TtlElapses

RequestSpec == Init /\ [][RequestNext]_vars

\* an administrator changes prices
AdminUpdatePrice(p) ==
  \/ \E code \in ServiceCodes, k \in Prices, a \in BOOLEAN :
        updatePrice(p, code, k, a) /\ PricingOnly
  \/ updatePrice_invalidate(p) /\ PricingOnly

\* one request at a time, while the administrator is at work and time passes
RequestSeqNext ==
  RequestStep("p1") \/ AdminUpdatePrice("p2") \/ TtlElapses

RequestSeqSpec == Init /\ [][RequestSeqNext]_vars

\* one request at a time, against a store that may reject a balance write
FaultRequestSeqNext ==
  \/ RequestStep("p1")
  \/ processCharge_debit_rejected("p1")
  \/ TtlElapses

FaultRequestSeqSpec == Init /\ [][FaultRequestSeqNext]_vars

\* one request at a time, against a store that may reject the reads of the
\* pre-check
FaultPreCheckSeqNext ==
  \/ RequestStep("p1")
  \/ checkWalletBalance_getPriceKobo_rejected("p1")
  \/ canAffordService_getBalance_rejected("p1")
  \/ canAffordService_getPriceKobo_rejected("p1")
  \/ canAffordService_getPriceKobo_unobserved("p1")
  \/ TtlElapses

FaultPreCheckSeqSpec == Init /\ [][FaultPreCheckSeqNext]_vars

\* getServiceCodeFromRequest on the path of an arriving request
getServiceCodeFromRequest(p) ==
  /\ req[p].stage = "none"
  /\ req' = [req EXCEPT
               ![p].stage = "resolved",
               ![p].serviceCode = getServiceCodeFromEndpoint(req[p].endpoint)]
  /\ UNCHANGED <<ledgerVars, pricingVars>>

ResolveNext == getServiceCodeFromRequest("p1")

ResolveSpec == ResolveInit /\ [][ResolveNext]_vars

\* ------------------------------------------------------- ledger views
Completed(a) ==
  {i \in DOMAIN walletTransactions :
     /\ walletTransactions[i].customerId = a
     /\ walletTransactions[i].status = "completed"}

Latest(S) == CHOOSE i \in S : \A j \in S : j <= i

RECURSIVE SumAmounts(_)
SumAmounts(S) ==
  IF S = {} THEN 0
  ELSE LET i == CHOOSE j \in S : TRUE
       IN walletTransactions[i].amount + SumAmounts(S \ {i})

\* the ledger holds nothing but entries of debit, credit and reservations
\* that are pending or completed (no refund and no cancellation took effect)
OnlyDebitCreditReservation ==
  \A i \in DOMAIN walletTransactions :
     /\ walletTransactions[i].originalTransactionId = NoTxn
     /\ walletTransactions[i].status \in {"pending", "completed"}

\* the ledger holds nothing but completed debits
OnlyCompletedDebits ==
  \A i \in DOMAIN walletTransactions :
     /\ walletTransactions[i].type = "debit"
     /\ walletTransactions[i].status = "completed"

\* the step is one of a call of `op`: its return, or a move of its request
StepOf(op) ==
  \/ returned'.op = op
  \/ \E p \in Procs :
        pc'[p] # pc[p] /\ (call[p].op = op \/ call'[p].op = op)

\* ------------------------------------------------------- revenue reporting
\* createdAt is the record's position: a date d admits the records at d or
\* later (from) or at d or earlier (to); NoDate is a parameter left out
NoDate == 0
Dates == 1..MaxTxns
TypeFilters == {"all", "credit", "debit"}

NotAdminPayment_Any(txn) == TRUE

NotAdminPayment(txn) == txn.paymentMethod # "admin"

\* the filter all three revenue sums apply to a record
RevenueCredit(txn) ==
  txn.type = "credit" /\ txn.status = "completed" /\ NotAdminPayment(txn)

\* MemoryDatabase.getBusinessOverview: monthlyRevenue
monthlyRevenue_counted(monthStart) ==
  {i \in DOMAIN walletTransactions :
     RevenueCredit(walletTransactions[i]) /\ i >= monthStart}

monthlyRevenue(monthStart) == SumAmounts(monthlyRevenue_counted(monthStart))

\* GET /overview: revenue and revenueThisMonth
totalRevenue_counted ==
  {i \in DOMAIN walletTransactions : RevenueCredit(walletTransactions[i])}

totalRevenue == SumAmounts(totalRevenue_counted)

revenueThisMonth_counted(monthStart) ==
  {i \in DOMAIN walletTransactions :
     RevenueCredit(walletTransactions[i]) /\ i >= monthStart}

revenueThisMonth(monthStart) == SumAmounts(revenueThisMonth_counted(monthStart))

\* GET /wallet/transactions: the listing's filter, totalCredits and netRevenue
filtered(type, startDate, endDate) ==
  {i \in DOMAIN walletTransactions :
     /\ type \in {"credit", "debit"} => walletTransactions[i].type = type
     /\ startDate # NoDate => i >= startDate
     /\ endDate # NoDate => i <= endDate}

totalCredits_counted(type, startDate, endDate) ==
  {i \in filtered(type, startDate, endDate) :
     RevenueCredit(walletTransactions[i])}

totalCredits(type, startDate, endDate) ==
  SumAmounts(totalCredits_counted(type, startDate, endDate))

netRevenue(type, startDate, endDate) == totalCredits(type, startDate, endDate)

\* ------------------------------------------------------- claims

\* C1: after any sequence of successful debit, credit and completeReservation
\* calls, every account's stored balance equals the balanceAfter of its most
\* recently created completed transaction, or the opening balance if it has
\* none (checked between calls, one caller at a time).
C1_BalanceIsLastCompleted ==
  (AllIdle /\ OnlyDebitCreditReservation) =>
     \A a \in Customers :
        walletBalance[a] =
          IF Completed(a) = {} THEN OpeningBalance
          ELSE walletTransactions[Latest(Completed(a))].balanceAfter

\* C2: ordering an account's completed transactions by creation, the
\* balanceAfter of each equals the balanceBefore of the next (checked between
\* calls, one caller at a time).
C2_CompletedChain ==
  AllIdle =>
     \A a \in Customers : \A i, j \in Completed(a) :
        (i < j /\ ~ \E m \in Completed(a) : i < m /\ m < j) =>
           walletTransactions[i].balanceAfter
             = walletTransactions[j].balanceBefore

\* C3: debit never takes a balance below 0: a debit call gets past the
\* balance check only with an amount the balance covers, a debit that
\* returns InsufficientBalance asked for more than the balance and changed
\* nothing, and the balance write of a debit stores balance - amount, which
\* is not negative.
C3_DebitNeverOverdraws ==
  [][/\ \A p \in Procs :
          /\ (pc[p] = "idle" /\ pc'[p] = "debit_getByReference") =>
                /\ call'[p].amountKobo <= walletBalance[call'[p].customerId]
                /\ call'[p].balanceBefore = walletBalance[call'[p].customerId]
                /\ UNCHANGED <<walletBalance, walletTransactions>>
          /\ (pc[p] = "debit_update" /\ pc'[p] = "idle") =>
                /\ walletBalance'[call[p].customerId]
                     = walletBalance[call[p].customerId] - call[p].amountKobo
                /\ walletBalance'[call[p].customerId] >= 0
                /\ returned'.op = "debit" /\ returned'.result = "ok"
     /\ (returned'.op = "debit"
           /\ returned'.result = "InsufficientBalanceError") =>
           /\ returned'.requiredAmount > walletBalance[returned'.customerId]
           /\ returned'.currentBalance = walletBalance[returned'.customerId]
           /\ UNCHANGED <<walletBalance, walletTransactions>>
     /\ (returned'.op = "debit" /\ returned'.result = "ok") =>
           walletBalance'[returned'.customerId] = returned'.balanceKobo
     /\ \A a \in Customers : walletBalance'[a] >= 0]_vars

C3_Witness ==
  /\ AllIdle
  /\ returned.op = "debit" /\ returned.result = "ok"
  /\ walletBalance[returned.customerId] = 0
  /\ walletTransactions[returned.transactionId].balanceBefore > 0

\* C4: a debit whose caller-supplied reference is already recorded for the
\* same account and amount is rejected at the reference check with
\* DuplicateTransaction, leaving balance and ledger as they are.
C4_RetryIsDuplicate ==
  /\ [][\A p \in Procs, a \in Customers, k \in Amounts, r \in CallerRefs :
          (/\ debit(p, a, k, r)
           /\ \E i \in DOMAIN walletTransactions :
                 /\ walletTransactions[i].reference = r
                 /\ walletTransactions[i].customerId = a
                 /\ walletTransactions[i].amount = k
                 /\ walletTransactions[i].type = "debit")
          => pc'[p] = "debit_getByReference"]_vars
  /\ [][\A p \in Procs :
          (/\ debit_getByReference(p)
           /\ getWalletTransactionByReference(call[p].reference) # NoTxn)
          => /\ returned'.op = "debit"
             /\ returned'.result = "DuplicateTransactionError"
             /\ UNCHANGED <<walletBalance, walletTransactions>>]_vars

\* C5: at most one completed transaction carries a given reference, however
\* the reads and writes of concurrent debit / credit calls interleave.
C5_OneCompletedPerReference ==
  \A i, j \in DOMAIN walletTransactions :
     (/\ i # j
      /\ walletTransactions[i].status = "completed"
      /\ walletTransactions[j].status = "completed")
     => walletTransactions[i].reference # walletTransactions[j].reference

\* C6: when callers issue only debit calls, concurrently, then once all of
\* them have returned the balance equals the opening balance minus the
\* amounts of the debits recorded as completed.
C6_BalanceIsOpeningMinusDebits ==
  (AllIdle /\ OnlyCompletedDebits) =>
     \A a \in Customers :
        walletBalance[a] = OpeningBalance - SumAmounts(Completed(a))

\* C7: a successful refund marks the original debit reversed and raises the
\* balance by the original amount, which is the pre-debit balance when
\* nothing moved the balance since the debit; a refund of a debit already
\* reversed returns DuplicateRefund and changes nothing.
C7_AfterRefund ==
  (AllIdle /\ returned.op = "refund" /\ returned.result = "ok") =>
     LET cr == walletTransactions[returned.transactionId]
         o == walletTransactions[cr.originalTransactionId]
     IN /\ o.status = "reversed"
        /\ cr.type = "credit" /\ cr.status = "completed"
        /\ cr.amount = o.amount
        /\ walletBalance[o.customerId] = cr.balanceBefore + o.amount
        /\ (cr.balanceBefore = o.balanceAfter =>
              walletBalance[o.customerId] = o.balanceBefore)

C7_RefundRoundTrip ==
  [][/\ C7_AfterRefund'
     /\ \A p \in Procs :
          (pc[p] = "idle" /\ pc'[p] = "refund_credit") =>
             walletTransactions[call'[p].originalTransactionId].status
               # "reversed"
     /\ (returned'.op = "refund"
           /\ returned'.result = "DuplicateRefundError") =>
           UNCHANGED <<walletBalance, walletTransactions>>]_vars

C7_Witness ==
  /\ returned.op = "refund" /\ returned.result = "DuplicateRefundError"
  /\ \E i \in DOMAIN walletTransactions :
        /\ walletTransactions[i].status = "reversed"
        /\ walletBalance[walletTransactions[i].customerId]
             = walletTransactions[i].balanceBefore

\* C8: at most one refund credit is applied for any original transaction.
C8_AtMostOneRefundCredit ==
  AllIdle =>
     \A t \in DOMAIN walletTransactions :
        Cardinality({i \in DOMAIN walletTransactions :
                       /\ walletTransactions[i].originalTransactionId = t
                       /\ walletTransactions[i].type = "credit"
                       /\ walletTransactions[i].status = "completed"}) <= 1

\* C9: no step of reserveBalance or cancelReservation changes a balance, and
\* a cancelReservation that returns leaves the reservation failed.
C9_AfterCancel ==
  (AllIdle /\ returned.op = "cancelReservation" /\ returned.result = "ok") =>
     walletTransactions[returned.transactionId].status = "failed"

C9_ReserveCancel ==
  [][/\ (StepOf("reserveBalance") \/ StepOf("cancelReservation")) =>
           UNCHANGED walletBalance
     /\ C9_AfterCancel']_vars

C9_Witness ==
  /\ AllIdle
  /\ returned.op = "cancelReservation" /\ returned.result = "ok"
  /\ returned.transactionId = Len(walletTransactions)
  /\ walletBalance[walletTransactions[returned.transactionId].customerId]
       = walletTransactions[returned.transactionId].balanceBefore

\* C10: a reservation records the balance it was made at; completing it sets
\* the balance to that balance minus the reserved amount, a decrease of
\* exactly the amount when the balance was not moved since the reservation,
\* and leaves the reservation completed with completedAt set.
C10_AfterComplete ==
  (AllIdle /\ returned.op = "completeReservation" /\ returned.result = "ok") =>
     LET t == walletTransactions[returned.transactionId]
     IN /\ t.status = "completed"
        /\ t.completedAt
        /\ walletBalance[t.customerId] = t.balanceBefore - t.amount

C10_ReserveComplete ==
  [][/\ \A p \in Procs :
          /\ (pc[p] = "idle" /\ pc'[p] = "reserve_create") =>
                call'[p].balanceBefore = walletBalance[call'[p].customerId]
          /\ (pc[p] = "complete_update" /\ pc'[p] # "complete_update"
                /\ walletBalance[call[p].customerId] = call[p].balanceBefore)
             => walletBalance'[call[p].customerId]
                  = walletBalance[call[p].customerId] - call[p].amountKobo
     /\ C10_AfterComplete']_vars

C10_Witness ==
  /\ AllIdle
  /\ returned.op = "completeReservation" /\ returned.result = "ok"
  /\ Len(walletTransactions) = 1
  /\ walletBalance[walletTransactions[1].customerId]
       = OpeningBalance - walletTransactions[1].amount

\* C11: when the pre-check has resolved a price above 0 and the balance it
\* read is lower than that price, the request ends with the 402 outcome
\* carrying the balance, the price and shortfall = price - balance, and the
\* step changes neither balance nor ledger; a request answered 402 never
\* reaches the downstream operation and never issues a debit.
C11_Blocked ==
  \A p \in Procs :
     req[p].response.status = 402 =>
        /\ req[p].stage = "done"
        /\ ~req[p].downstreamRan
        /\ req[p].debits = 0

C11_PreCheckBlocks ==
  [][/\ \A p \in Procs :
          (/\ req[p].stage = "canAfford"
           /\ req'[p].stage # "canAfford"
           /\ req'[p].priceKobo > 0
           /\ req'[p].balance < req'[p].priceKobo)
          => /\ req'[p].response.status = 402
             /\ req'[p].response.currentBalance = Naira(req'[p].balance)
             /\ req'[p].response.serviceCost = Naira(req'[p].priceKobo)
             /\ req'[p].response.shortfall =
                  Naira(req'[p].priceKobo - req'[p].balance)
             /\ UNCHANGED <<walletBalance, walletTransactions>>
     /\ C11_Blocked']_vars

\* C12: every step of a debit issued by the charging protocol belongs to a
\* request whose downstream operation has answered with a status in
\* [200,300); a request answered with another status, or ended before the
\* route answered, has issued no debit, so that no step of it changes a
\* balance or the ledger.
C12_NoDebitIssued ==
  \A p \in Procs :
     (req[p].debits > 0 \/ req[p].stage = "charge") =>
        /\ req[p].downstreamRan
        /\ req[p].statusCode >= 200 /\ req[p].statusCode < 300
        /\ req[p].response.status = req[p].statusCode

C12_ChargeOnlyAfterSuccess ==
  [][/\ C12_NoDebitIssued'
     /\ \A p \in Procs :
          pc'[p] # pc[p] =>
             /\ req[p].stage = "charge"
             /\ req[p].downstreamRan
             /\ req[p].statusCode >= 200 /\ req[p].statusCode < 300
     /\ (\A p \in Procs : pc'[p] = pc[p]) =>
           UNCHANGED <<walletBalance, walletTransactions>>]_vars

C12_Witness ==
  /\ walletTransactions = <<>>
  /\ \A a \in Customers : walletBalance[a] = OpeningBalance
  /\ \E p \in Procs :
        /\ req[p].stage = "done"
        /\ req[p].walletContext.set /\ req[p].walletContext.priceKobo > 0
        /\ req[p].downstreamRan /\ req[p].statusCode = 500
        /\ req[p].response.status = 500
        /\ req[p].postChecks > 0

\* C13: a request issues at most one debit: a post-check invocation that
\* finds the request already charged (the second override of the same
\* answer, a repeated res.send, the first debit still in flight or over)
\* issues nothing and touches neither balance nor ledger, and the ledger
\* never holds more transactions than there were requests.
C13_OneDebitPerRequest ==
  /\ \A p \in Procs : req[p].debits <= 1
  /\ Len(walletTransactions) <= RequestsServed

C13_NoDoubleCharge ==
  [][/\ C13_OneDebitPerRequest'
     /\ \A p \in Procs :
          (req[p].hasCharged /\ req'[p].postChecks > req[p].postChecks) =>
             /\ req'[p].debits = req[p].debits
             /\ req'[p].stage = req[p].stage
             /\ UNCHANGED <<walletBalance, walletTransactions, pc, call>>]_vars

C13_Witness ==
  \E p \in Procs :
     /\ req[p].stage = "charge" /\ pc[p] = "debit_update"
     /\ req[p].postChecks = 3
     /\ req[p].debits = 1

\* C14: every finished request that passed the pre-check with a price above
\* 0 and whose downstream response was 2xx has been charged: its
\* transaction is a completed debit of that price on the customer's account
\* with balanceAfter = balanceBefore - price.
C14_SuccessfulRequestsAreCharged ==
  \A p \in Procs :
     (/\ req[p].stage = "done"
      /\ req[p].walletContext.set /\ req[p].walletContext.priceKobo > 0
      /\ req[p].downstreamRan
      /\ req[p].statusCode >= 200 /\ req[p].statusCode < 300)
     => /\ req[p].walletContext.charged
        /\ req[p].debits = 1
        /\ req[p].walletContext.transactionId \in DOMAIN walletTransactions
        /\ LET t == walletTransactions[req[p].walletContext.transactionId]
           IN /\ t.type = "debit" /\ t.status = "completed"
              /\ t.customerId = req[p].customerId
              /\ t.amount = req[p].walletContext.priceKobo
              /\ t.balanceAfter = t.balanceBefore - t.amount

\* C15: no response is delivered while the debit of its request is still
\* to finish: a request whose charge is in flight has delivered nothing yet.
C15_ChargeBeforeResponse ==
  \A p \in Procs :
     req[p].stage = "charge" => req[p].response.status = 0

\* C16: when the debit of the post-check fails, the response the downstream
\* operation produced stays as delivered (same status, same body, no second
\* debit), and an ERROR event carrying the account id, the amount and the
\* endpoint is logged.
C16_FailedChargeIsLogged ==
  [][\A p \in Procs :
        (/\ req[p].stage = "charge" /\ req'[p].stage = "done"
         /\ returned'.result # "ok")
        => /\ returned'.op = "debit"
           /\ req'[p].response = req[p].response
           /\ req'[p].response.status = req[p].statusCode
           /\ req'[p].response.body = "downstream"
           /\ req'[p].debits = req[p].debits
           /\ req'[p].walletContext.chargeError
           /\ req'[p].log.type = "ERROR"
           /\ req'[p].log.customerId = req[p].customerId
           /\ req'[p].log.priceKobo = req[p].walletContext.priceKobo
           /\ req'[p].log.endpoint = req[p].endpoint]_vars

C16_Witness ==
  \E p \in Procs :
     /\ req[p].stage = "done"
     /\ returned.op = "debit" /\ returned.result = "InsufficientBalanceError"
     /\ req[p].walletContext.chargeError
     /\ req[p].log.type = "ERROR"
     /\ req[p].response.status = 200

\* C17: a request for which no service code is resolved, or whose resolved
\* price is 0, goes to the downstream operation whatever the balance is: it
\* is never balance-checked and never blocked, and no post-check issues a
\* debit for it.
C17_Free(r) ==
  /\ r.customerId \in Customers
  /\ \/ r.stage # "none" /\ r.serviceCode = NoServiceCode
     \/ r.stage \in {"priced", "downstream", "charge", "done"}
          /\ r.priceKobo = 0

C17_FreeRequest ==
  \A p \in Procs :
     C17_Free(req[p]) =>
        /\ req[p].stage \in {"priced", "downstream", "done"}
        /\ req[p].response.status # 402
        /\ ~req[p].balanceRead
        /\ req[p].debits = 0

C17_FreeGoesThrough ==
  [][/\ C17_FreeRequest'
     /\ \A p \in Procs :
          /\ (/\ req'[p].served # req[p].served
              /\ req'[p].customerId \in Customers
              /\ req'[p].serviceCode = NoServiceCode)
             => req'[p].stage = "downstream"
          /\ (/\ req[p].stage = "priced" /\ req[p].priceKobo = 0
              /\ req'[p] # req[p])
             => /\ req'[p].stage = "downstream"
                /\ req'[p].walletContext.priceKobo = 0]_vars

C17_Witness ==
  \E p \in Procs :
     /\ req[p].stage = "done"
     /\ req[p].serviceCode # NoServiceCode /\ req[p].priceKobo = 0
     /\ req[p].walletContext.set
     /\ walletBalance[req[p].customerId] = 0
     /\ req[p].downstreamRan /\ req[p].response.status = 200
     /\ req[p].postChecks > 0
     /\ req[p].debits = 0

\* C18: getPriceKobo never raises, and what it hands back, out of the cache
\* or out of the store, is 0 when the store has no record for the service
\* code or an inactive one, and the price of the record when it is active.
C18_PriceLookup ==
  [][priced'.op = "getPriceKobo" =>
        /\ priced'.result = "ok"
        /\ priced'.priceKobo =
             IF /\ servicePricing[priced'.serviceCode].found
                /\ servicePricing[priced'.serviceCode].isActive
             THEN servicePricing[priced'.serviceCode].priceKobo
             ELSE 0]_vars

C18_Witness ==
  /\ priced.op = "getPriceKobo" /\ priced.fromCache
  /\ servicePricing[priced.serviceCode].found
  /\ ~servicePricing[priced.serviceCode].isActive
  /\ servicePricing[priced.serviceCode].priceKobo > 0
  /\ priced.priceKobo = 0

\* C19: while no price mutation is under way (each one that started has
\* returned), a price lookup answered out of the cache hands back what the
\* store holds for the service code: the price of its active record, or 0.
C19_MutationInFlight ==
  \E p \in Procs :
     lookup[p].at \in {"updatePrice_invalidate", "createPricing_invalidate",
                       "deletePricing_invalidate"}

C19_NoStalePrice ==
  [][(/\ priced'.op = "getPriceKobo" /\ priced'.fromCache
      /\ ~C19_MutationInFlight)
     => priced'.priceKobo =
          IF /\ servicePricing[priced'.serviceCode].found
             /\ servicePricing[priced'.serviceCode].isActive
          THEN servicePricing[priced'.serviceCode].priceKobo
          ELSE 0]_vars

\* C20: a ledger call that returns one of the guard errors changes no
\* balance, writes no record and changes no status, in the step that
\* returns it and in the steps before: it returns from a place that no
\* write of the call precedes. The reference guard does fire: a debit or
\* credit whose reference is already recorded returns DuplicateTransaction.
C20_GuardErrors ==
  {"WalletNotFoundError", "InsufficientBalanceError",
   "DuplicateTransactionError", "TransactionNotFoundError",
   "InvalidTransactionError", "InvalidTransactionStatusError",
   "DuplicateRefundError"}

C20_GuardFailureIsNoOp ==
  [][/\ returned'.result \in C20_GuardErrors =>
           UNCHANGED <<walletBalance, walletTransactions>>
     /\ returned'.result \in C20_GuardErrors \cup {"ok", "none"}
     /\ \A p \in Procs :
          /\ (pc[p] # "idle" /\ pc'[p] = "idle"
                /\ returned'.result \in C20_GuardErrors)
             => pc[p] \in {"debit_getByReference", "credit_getByReference",
                           "refund_credit"}
          /\ (/\ pc[p] \in {"debit_getByReference", "credit_getByReference"}
              /\ pc'[p] # pc[p]
              /\ \E i \in DOMAIN walletTransactions :
                    walletTransactions[i].reference = call[p].reference)
             => /\ pc'[p] = "idle"
                /\ returned'.result = "DuplicateTransactionError"]_vars

C20_Witness ==
  /\ returned.op = "credit"
  /\ returned.result = "DuplicateTransactionError"
  /\ Len(walletTransactions) = 1
  /\ walletTransactions[1].type = "debit"
  /\ walletTransactions[1].reference \in CallerRefs
  /\ walletBalance[walletTransactions[1].customerId]
       = walletTransactions[1].balanceAfter

\* C21: a debit of exactly the current balance passes the balance check and
\* its balance write leaves 0; a debit of more than the balance returns
\* InsufficientBalance with requiredAmount = amount, currentBalance = balance
\* and shortfall = amount - balance > 0, which is 1 for amount = balance + 1
\* (one caller at a time).
C21_DebitAtTheBoundary ==
  [][\A p \in Procs :
       /\ (\/ pc[p] = "idle" /\ call'[p].op = "debit"
           \/ returned'.op = "debit") =>
          \A a \in Customers, k \in Amounts, r \in References :
            debit(p, a, k, r) =>
              /\ k <= walletBalance[a] =>
                   /\ pc'[p] = "debit_getByReference"
                   /\ call'[p].amountKobo = k
                   /\ call'[p].balanceBefore = walletBalance[a]
              /\ k > walletBalance[a] =>
                   /\ returned'.op = "debit"
                   /\ returned'.result = "InsufficientBalanceError"
                   /\ returned'.requiredAmount = k
                   /\ returned'.currentBalance = walletBalance[a]
                   /\ returned'.shortfall = k - walletBalance[a]
                   /\ returned'.shortfall > 0
                   /\ (k = walletBalance[a] + 1 => returned'.shortfall = 1)
                   /\ UNCHANGED <<walletBalance, walletTransactions>>
       /\ (pc[p] = "debit_getByReference"
             /\ getWalletTransactionByReference(call[p].reference) = NoTxn)
          => pc'[p] \in {"debit_getByReference", "debit_create"}
       /\ pc[p] = "debit_create" =>
             pc'[p] \in {"debit_create", "debit_update"}
       /\ pc[p] \in {"debit_getByReference", "debit_create", "debit_update"} =>
             call[p].balanceBefore = walletBalance[call[p].customerId]
       /\ (pc[p] = "debit_update" /\ pc'[p] # "debit_update") =>
             /\ returned'.op = "debit" /\ returned'.result = "ok"
             /\ walletBalance'[call[p].customerId]
                  = walletBalance[call[p].customerId] - call[p].amountKobo
             /\ (call[p].amountKobo = walletBalance[call[p].customerId] =>
                   walletBalance'[call[p].customerId] = 0)]_vars

C21_Witness ==
  /\ returned.op = "debit"
  /\ returned.result = "InsufficientBalanceError"
  /\ returned.shortfall = 1
  /\ returned.currentBalance = 0
  /\ walletBalance[returned.customerId] = 0
  /\ Len(walletTransactions) > 0
  /\ LET t == walletTransactions[Len(walletTransactions)]
     IN /\ t.type = "debit" /\ t.status = "completed"
        /\ t.amount = t.balanceBefore
        /\ t.balanceAfter = 0

\* C22: credit on an existing account has no balance check: it goes on to
\* the reference check whatever the balance; with a reference no record
\* carries it writes a completed credit with balanceAfter = balanceBefore +
\* amount and sets the balance to that balanceAfter; with a reference
\* already recorded it returns DuplicateTransaction and changes nothing
\* (one caller at a time).
C22_CreditAlwaysSucceeds ==
  [][\A p \in Procs :
       /\ (\/ pc[p] = "idle" /\ call'[p].op = "credit"
           \/ returned'.op = "credit") =>
          \A a \in Customers, k \in Amounts, r \in References :
            credit(p, a, k, r) =>
              /\ pc'[p] = "credit_getByReference"
              /\ call'[p].balanceBefore = walletBalance[a]
              /\ r # NoReference => call'[p].reference = r
              /\ r = NoReference =>
                   getWalletTransactionByReference(call'[p].reference) = NoTxn
       /\ (pc[p] = "credit_getByReference" /\ call[p].op = "credit"
             /\ pc'[p] # pc[p]) =>
             IF \E i \in DOMAIN walletTransactions :
                   walletTransactions[i].reference = call[p].reference
             THEN /\ returned'.op = "credit"
                  /\ returned'.result = "DuplicateTransactionError"
                  /\ UNCHANGED <<walletBalance, walletTransactions>>
             ELSE pc'[p] = "credit_create"
       /\ (pc[p] = "credit_create" /\ call[p].op = "credit"
             /\ pc'[p] # pc[p]) =>
             /\ pc'[p] = "credit_update"
             /\ Len(walletTransactions') = Len(walletTransactions) + 1
             /\ LET t == walletTransactions'[Len(walletTransactions')]
                IN /\ t.type = "credit" /\ t.status = "completed"
                   /\ t.customerId = call[p].customerId
                   /\ t.amount = call[p].amountKobo
                   /\ t.balanceBefore = walletBalance[t.customerId]
                   /\ t.balanceAfter = t.balanceBefore + t.amount
       /\ (pc[p] = "credit_update" /\ call[p].op = "credit"
             /\ pc'[p] # pc[p]) =>
             /\ returned'.op = "credit" /\ returned'.result = "ok"
             /\ LET t == walletTransactions[returned'.transactionId]
                IN /\ walletBalance'[t.customerId] = t.balanceAfter
                   /\ walletBalance'[t.customerId]
                        = walletBalance[t.customerId] + t.amount
                   /\ returned'.balanceKobo = t.balanceAfter]_vars

C22_Witness ==
  /\ AllIdle
  /\ returned.op = "credit" /\ returned.result = "ok"
  /\ Len(walletTransactions) = 2
  /\ walletTransactions[1].type = "debit"
  /\ returned.transactionId = 2
  /\ walletTransactions[2].type = "credit"
  /\ walletTransactions[2].balanceBefore < OpeningBalance
  /\ walletBalance[returned.customerId]
       = walletTransactions[2].balanceBefore + walletTransactions[2].amount

\* C23: every transaction written through adminCredit or adminDebit (its
\* metadata carries an adjustmentType) has the admin payment method, the
\* tag the revenue sums look for.
C23_AdminAdjustments ==
  {i \in DOMAIN walletTransactions :
     walletTransactions[i].adjustmentType # "none"}

C23_AdminEntriesAreTagged ==
  \A i \in C23_AdminAdjustments : walletTransactions[i].paymentMethod = "admin"

\* C24: whatever the month start and the listing's filters, no revenue sum
\* counts a transaction written through adminCredit or adminDebit: each sum
\* is the sum over the completed credits in range that are no adjustment.
C24_Revenue(S) ==
  {i \in S :
     /\ walletTransactions[i].type = "credit"
     /\ walletTransactions[i].status = "completed"
     /\ i \notin C23_AdminAdjustments}

C24_RevenueExcludesAdjustments ==
  /\ totalRevenue_counted \cap C23_AdminAdjustments = {}
  /\ totalRevenue = SumAmounts(C24_Revenue(DOMAIN walletTransactions))
  /\ \A monthStart \in Dates :
       /\ monthlyRevenue_counted(monthStart) \cap C23_AdminAdjustments = {}
       /\ revenueThisMonth_counted(monthStart) \cap C23_AdminAdjustments = {}
       /\ monthlyRevenue(monthStart)
            = SumAmounts(C24_Revenue(
                {i \in DOMAIN walletTransactions : i >= monthStart}))
       /\ revenueThisMonth(monthStart) = monthlyRevenue(monthStart)
  /\ \A type \in TypeFilters, startDate, endDate \in Dates \cup {NoDate} :
       /\ totalCredits_counted(type, startDate, endDate)
            \cap C23_AdminAdjustments = {}
       /\ netRevenue(type, startDate, endDate)
            = SumAmounts(C24_Revenue(filtered(type, startDate, endDate)))

C24_Witness ==
  /\ AllIdle
  /\ Len(walletTransactions) = 2
  /\ \E i, j \in DOMAIN walletTransactions :
        /\ walletTransactions[i].adjustmentType = "credit"
        /\ walletTransactions[i].status = "completed"
        /\ walletTransactions[j].type = "credit"
        /\ walletTransactions[j].paymentMethod = "card"
        /\ totalRevenue = walletTransactions[j].amount
        /\ walletBalance[walletTransactions[j].customerId]
             = OpeningBalance + walletTransactions[i].amount
                 + walletTransactions[j].amount

\* C25: no step rewinds a status: a record's status changes only from
\* pending to completed or failed, or from completed to reversed; a failed
\* record keeps its status.
C25_Forward ==
  {<<"pending", "completed">>, <<"pending", "failed">>,
   <<"completed", "reversed">>}

C25_StatusMovesForward ==
  [][\A i \in DOMAIN walletTransactions :
        walletTransactions'[i].status # walletTransactions[i].status =>
           <<walletTransactions[i].status, walletTransactions'[i].status>>
              \in C25_Forward]_vars

\* C26: refund goes on to its credit only for a debit whose amount was taken
\* from the balance, that is one whose status is completed; for a debit that
\* is pending or failed it credits nothing.
C26_RefundOnlyAppliedDebits ==
  [][\A p \in Procs :
        (pc[p] = "idle" /\ pc'[p] = "refund_credit") =>
           walletTransactions[call'[p].originalTransactionId].status
             = "completed"]_vars

\* C27: reserveBalance on an existing account returns InsufficientBalance
\* exactly when the amount exceeds the balance; otherwise its one write
\* appends one pending debit with balanceBefore = the balance and
\* balanceAfter = balanceBefore - amount, touches no other record, and no
\* step of the call changes a stored balance (one caller at a time).
C27_ReserveWritesPendingOnly ==
  [][\A p \in Procs :
       /\ (\/ pc[p] = "idle" /\ call'[p].op = "reserveBalance"
           \/ returned'.op = "reserveBalance") =>
          \A a \in Customers, k \in Amounts :
            reserveBalance(p, a, k) =>
              /\ k > walletBalance[a] <=>
                   /\ returned'.op = "reserveBalance"
                   /\ returned'.result = "InsufficientBalanceError"
              /\ k <= walletBalance[a] <=> pc'[p] = "reserve_create"
              /\ UNCHANGED <<walletBalance, walletTransactions>>
       /\ (pc[p] = "reserve_create" /\ pc'[p] # pc[p]) =>
             /\ returned'.op = "reserveBalance" /\ returned'.result = "ok"
             /\ returned'.transactionId = Len(walletTransactions) + 1
             /\ Len(walletTransactions') = Len(walletTransactions) + 1
             /\ \A i \in DOMAIN walletTransactions :
                   walletTransactions'[i] = walletTransactions[i]
             /\ LET t == walletTransactions'[Len(walletTransactions')]
                IN /\ t.type = "debit" /\ t.status = "pending"
                   /\ t.customerId = call[p].customerId
                   /\ t.amount = call[p].amountKobo
                   /\ t.balanceBefore = walletBalance[t.customerId]
                   /\ t.balanceAfter = t.balanceBefore - t.amount
             /\ UNCHANGED walletBalance]_vars

C27_Witness ==
  /\ AllIdle
  /\ returned.op = "reserveBalance" /\ returned.result = "ok"
  /\ Len(walletTransactions) = 1
  /\ walletTransactions[1].status = "pending"
  /\ walletTransactions[1].balanceAfter
       = OpeningBalance - walletTransactions[1].amount
  /\ walletBalance[walletTransactions[1].customerId] = OpeningBalance

\* C28: a completeReservation or cancelReservation that returns at its
\* guards was given an id no record has, and returns TransactionNotFound, or
\* a record that is not pending, and returns InvalidTransactionStatus, and
\* changed nothing (C28_Guarded); they go on only for a pending record,
\* which a successful call leaves completed (failed for a cancellation);
\* and no step makes a record pending again, so one reservation is
\* completed or cancelled at most once (one caller at a time).
C28_Guarded(t) ==
  IF t \notin DOMAIN walletTransactions
  THEN /\ returned'.result = "TransactionNotFoundError"
       /\ UNCHANGED <<walletBalance, walletTransactions>>
  ELSE IF walletTransactions[t].status # "pending"
  THEN /\ returned'.result = "InvalidTransactionStatusError"
       /\ UNCHANGED <<walletBalance, walletTransactions>>
  ELSE FALSE

C28_OnlyPendingIsResolved ==
  [][/\ \A p \in Procs :
          /\ (pc[p] = "idle" /\ returned'.op = "completeReservation") =>
                \A t \in TxnIds :
                   completeReservation(p, t) => C28_Guarded(t)
          /\ (pc[p] = "idle" /\ returned'.op = "cancelReservation") =>
                \A t \in TxnIds :
                   cancelReservation(p, t) => C28_Guarded(t)
          /\ (pc[p] = "idle" /\ pc'[p] \in {"complete_update", "cancel_mark"}) =>
                /\ call'[p].transactionId \in DOMAIN walletTransactions
                /\ walletTransactions[call'[p].transactionId].status
                     = "pending"
                /\ UNCHANGED <<walletBalance, walletTransactions>>
          /\ (pc[p] \in {"complete_update", "complete_mark", "cancel_mark"}) =>
                walletTransactions[call[p].transactionId].status = "pending"
          /\ (pc[p] = "complete_mark" /\ pc'[p] # pc[p]) =>
                /\ returned'.op = "completeReservation"
                /\ returned'.result = "ok"
                /\ walletTransactions'[call[p].transactionId].status
                     = "completed"
          /\ (pc[p] = "cancel_mark" /\ pc'[p] # pc[p]) =>
                /\ returned'.op = "cancelReservation"
                /\ returned'.result = "ok"
                /\ walletTransactions'[call[p].transactionId].status = "failed"
     /\ \A i \in DOMAIN walletTransactions :
          walletTransactions'[i].status = "pending" =>
             walletTransactions[i].status = "pending"]_vars

C28_Witness ==
  /\ returned.op = "cancelReservation"
  /\ returned.result = "InvalidTransactionStatusError"
  /\ Len(walletTransactions) = 1
  /\ walletTransactions[1].status = "completed"
  /\ walletBalance[walletTransactions[1].customerId]
       = walletTransactions[1].balanceAfter

\* C29: once every call has returned and the ledger's only record is a
\* debit that is no longer pending (a reservation that was resolved, or a
\* plain debit), the record is either completed with the balance lowered by
\* its amount or failed with the balance untouched, however the steps of
\* concurrent completeReservation and cancelReservation calls interleave.
C29_RaceResolvesOnce ==
  (/\ AllIdle
   /\ Len(walletTransactions) = 1
   /\ walletTransactions[1].type = "debit"
   /\ walletTransactions[1].status # "pending") =>
     LET t == walletTransactions[1]
     IN \/ /\ t.status = "completed"
           /\ walletBalance[t.customerId] = OpeningBalance - t.amount
        \/ /\ t.status = "failed"
           /\ walletBalance[t.customerId] = OpeningBalance

\* C30: the balance write of completeReservation lowers the balance the
\* account has at that moment by exactly the reserved amount, whatever
\* debits and credits completed since the reservation was made.
C30_CompleteKeepsInterimChanges ==
  [][\A p \in Procs :
        (pc[p] = "complete_update" /\ pc'[p] # pc[p]) =>
           walletBalance'[call[p].customerId]
             = walletBalance[call[p].customerId] - call[p].amountKobo]_vars

\* C31: a debit or a reserveBalance gets past its balance check only with
\* an amount that the stored balance minus the account's pending
\* reservations covers.
C31_Pending(a) ==
  {i \in DOMAIN walletTransactions :
     /\ walletTransactions[i].customerId = a
     /\ walletTransactions[i].status = "pending"}

C31_HeldFundsAreEarmarked ==
  [][\A p \in Procs :
        (pc[p] = "idle"
           /\ pc'[p] \in {"debit_getByReference", "reserve_create"}) =>
           call'[p].amountKobo
             <= walletBalance[call'[p].customerId]
                  - SumAmounts(C31_Pending(call'[p].customerId))]_vars

\* C32: when the store rejects the balance write of the post-check's debit,
\* the debit hands its caller an error, the completed record it wrote
\* before stays with a balanceAfter that is not the stored balance, and the
\* post-check logs the ERROR event (charge failed, requires reconciliation)
\* with the account id, the amount and the endpoint (one request at a time).
C32_WriteRejected(p) ==
  /\ pc[p] = "debit_update" /\ pc'[p] = "idle"
  /\ UNCHANGED walletBalance

C32_RejectedWriteIsSurfaced ==
  [][\A p \in Procs :
        C32_WriteRejected(p) =>
           /\ returned'.op = "debit"
           /\ returned'.result \notin {"ok", "none"}
           /\ UNCHANGED walletTransactions
           /\ LET t == walletTransactions'[call[p].transactionId]
              IN /\ t.type = "debit" /\ t.status = "completed"
                 /\ t.balanceAfter # walletBalance'[t.customerId]
                 /\ t.balanceBefore = walletBalance'[t.customerId]
           /\ req'[p].stage = "done"
           /\ req'[p].walletContext.chargeError
           /\ ~req'[p].walletContext.charged
           /\ req'[p].log.type = "ERROR"
           /\ req'[p].log.customerId = req[p].customerId
           /\ req'[p].log.priceKobo = req[p].walletContext.priceKobo
           /\ req'[p].log.endpoint = req[p].endpoint]_vars

C32_Witness ==
  /\ returned.op = "debit" /\ returned.result = "StoreError"
  /\ req["p1"].stage = "done"
  /\ req["p1"].log.type = "ERROR"
  /\ Len(walletTransactions) > 0
  /\ LET t == walletTransactions[Len(walletTransactions)]
     IN /\ t.status = "completed"
        /\ walletBalance[t.customerId] = t.balanceBefore
        /\ walletBalance[t.customerId] # t.balanceAfter

\* C33: when the store rejects the write that marks the original debit
\* reversed, refund hands its caller an error and rolls nothing back: the
\* refund credit stays completed, the balance stays at that credit's
\* balanceAfter, and the original keeps the status it had (one caller at a
\* time).
C33_MarkRejected(p) ==
  /\ pc[p] = "refund_markReversed" /\ pc'[p] = "idle"
  /\ walletTransactions'[call[p].originalTransactionId].status # "reversed"

C33_CreditIsKept ==
  [][\A p \in Procs :
        C33_MarkRejected(p) =>
           /\ returned'.op = "refund"
           /\ returned'.result \notin {"ok", "none"}
           /\ UNCHANGED walletTransactions
           /\ LET cr == walletTransactions'[call[p].transactionId]
              IN /\ cr.type = "credit" /\ cr.status = "completed"
                 /\ cr.originalTransactionId = call[p].originalTransactionId
                 /\ cr.balanceAfter = cr.balanceBefore + cr.amount
                 /\ walletBalance'[cr.customerId] = cr.balanceAfter
           /\ UNCHANGED walletBalance]_vars

C33_Witness ==
  /\ AllIdle
  /\ returned.op = "refund" /\ returned.result = "StoreError"
  /\ Len(walletTransactions) = 2
  /\ walletTransactions[1].status = "completed"
  /\ walletTransactions[2].type = "credit"
  /\ walletTransactions[2].status = "completed"
  /\ walletTransactions[2].originalTransactionId = 1
  /\ walletBalance[walletTransactions[2].customerId] = OpeningBalance

\* C34: a stored transaction is never deleted, and no step of any wallet
\* operation changes anything of it but its status and its completedAt:
\* customerId, type, amount, balanceBefore, balanceAfter, reference and every
\* other field stay as they were written.
C34_Written(t) == [t EXCEPT !.status = "completed", !.completedAt = TRUE]

C34_RecordsAreImmutable ==
  [][/\ Len(walletTransactions') >= Len(walletTransactions)
     /\ \A i \in DOMAIN walletTransactions :
           C34_Written(walletTransactions'[i]) =
              C34_Written(walletTransactions[i])]_vars

C34_Witness ==
  /\ Len(walletTransactions) = 2
  /\ walletTransactions[1].type = "debit"
  /\ walletTransactions[1].status = "reversed"
  /\ walletTransactions[1].balanceAfter # walletBalance[walletTransactions[1].customerId]
  /\ walletTransactions[2].status = "completed"

\* C35: the amount the post-check hands to debit is the service cost against
\* which the pre-check of the same request decided that the account can
\* afford the service, whatever an administrator does to the price
\* between the pre-check's two lookups or between pre-check and post-check.
C35_Charging(p) ==
  /\ req[p].stage = "charge"
  /\ pc[p] # "idle"
  /\ call[p].op = "debit"

C35_ChargeIsTheCheckedCost ==
  \A p \in Procs :
     C35_Charging(p) => call[p].amountKobo = req[p].serviceCost

\* C36: the pre-check fails closed. When resolving the price or reading the
\* balance (account not found included) raises an error, the request is
\* answered with the server error, the downstream operation is not invoked
\* for it, and nothing is charged.
C36_PreCheckRaises(p) ==
  \/ checkWalletBalance_getPriceKobo_rejected(p)
  \/ canAffordService_getBalance_rejected(p)
  \/ canAffordService_getPriceKobo_rejected(p)

C36_Refused(r) ==
  /\ r.stage = "done"
  /\ r.response.status = 500
  /\ r.response.body = "WALLET_CHECK_ERROR"
  /\ ~r.downstreamRan
  /\ ~r.walletContext.set
  /\ r.debits = 0

C36_PreCheckFailsClosed ==
  [][\A p \in Procs :
        /\ C36_PreCheckRaises(p) => C36_Refused(req'[p])
        /\ (C36_Refused(req[p]) /\ req'[p].served = req[p].served)
              => C36_Refused(req'[p])]_vars

C36_Witness ==
  /\ C36_Refused(req["p1"])
  /\ req["p1"].costRead
  /\ req["p1"].serviceCost > 0
  /\ lookup["p1"].at = "idle"

\* C37: whatever integer amount (zero and negative included) is passed to
\* debit, credit, reserveBalance, adminCredit or adminDebit, every recorded
\* transaction has a non-negative amount, the balance write of a debit never
\* increases the balance and that of a credit never decreases it.
C37_Account(p) == call[p].customerId

C37_AmountsKeepTheirDirection ==
  [][/\ \A i \in DOMAIN walletTransactions' :
           walletTransactions'[i].amount >= 0
     /\ \A p \in Procs :
           /\ pc[p] \in {"debit_update", "complete_update"}
                 => walletBalance'[C37_Account(p)]
                       <= walletBalance[C37_Account(p)]
           /\ pc[p] = "credit_update"
                 => walletBalance'[C37_Account(p)]
                       >= walletBalance[C37_Account(p)]]_vars

\* C38: the service code of a path is, in this order: the first segment that
\* is a known service code; else the segment after 'business' (the one after
\* 'business/identity' when there is one); else the second-to-last segment
\* when the last one looks like an ID and there is one before it, the last
\* segment otherwise; it is null exactly when the path, its query string
\* removed, has no segments.
C38_Rule1(segments) ==
  \E i \in DOMAIN segments : segments[i] \in KnownServiceCodes

C38_Rule2(segments) ==
  \E i \in 1..(Len(segments) - 1) : segments[i] = "business"

C38_Expected(segments) ==
  IF C38_Rule1(segments)
  THEN segments[First({i \in DOMAIN segments :
                         segments[i] \in KnownServiceCodes})]
  ELSE IF C38_Rule2(segments)
  THEN LET b == First({i \in DOMAIN segments : segments[i] = "business"})
       IN IF segments[b + 1] = "identity" /\ b + 2 \in DOMAIN segments
          THEN segments[b + 2] ELSE segments[b + 1]
  ELSE IF Len(segments) >= 2 /\ ContainsDigit(segments[Len(segments)])
  THEN segments[Len(segments) - 1]
  ELSE segments[Len(segments)]

C38_RulesInOrder ==
  \A p \in Procs :
     req[p].stage = "resolved" =>
        LET segments == PathSegments(req[p].endpoint)
        IN /\ (req[p].serviceCode = NoServiceCode) <=> (segments = <<>>)
           /\ segments # <<>> => req[p].serviceCode = C38_Expected(segments)

C38_Witness ==
  /\ req["p1"].stage = "resolved"
  /\ req["p1"].endpoint =
       <<"users", Slash, "business", Slash, "name-search">>
  /\ req["p1"].serviceCode = "name-search"

\* C39: in any sequence of getPrice, listPricing and mutation calls, a lookup
\* is answered out of the cache only while the cache timestamp is younger
\* than the TTL; once it is older every lookup is answered with what it then
\* reads from the store; and a step that renews the timestamp keeps no entry
\* of the cache it replaces.
C39_FromStore(l) == PriceKoboOrZero(ActiveOrNull(l.pricing))

\* a lookup hands back its price in this step (time passing hands back
\* nothing)
C39_Answered == priced'.op = "getPriceKobo" /\ ~cacheTtlElapses

C39_CacheHonoursTtl ==
  [][/\ (C39_Answered /\ priced'.fromCache)
           => ~pricingCache.isNull /\ cacheLastUpdated = "fresh"
     /\ (C39_Answered /\ ~priced'.fromCache)
           => \E p \in Procs :
                 /\ lookup[p].at = "getPrice_cache"
                 /\ lookup'[p].at = "idle"
                 /\ priced'.priceKobo = C39_FromStore(lookup[p])
     /\ (cacheLastUpdated # "fresh" /\ cacheLastUpdated' = "fresh")
           => \A code \in ServiceCodes :
                 pricingCache'.entries[code].found
                    => \E p \in Procs :
                          /\ lookup[p].at # "idle" /\ lookup'[p].at = "idle"
                          /\ \/ /\ lookup[p].serviceCode = code
                                /\ pricingCache'.entries[code]
                                      = lookup[p].pricing
                             \/ pricingCache'.entries[code]
                                   = lookup[p].listed[code]]_vars

C39_Witness ==
  /\ cacheLastUpdated = "expired"
  /\ ~pricingCache.isNull
  /\ priced.op = "getPriceKobo" /\ ~priced.fromCache
  /\ pricingCache.entries[priced.serviceCode].found
  /\ pricingCache.entries[priced.serviceCode].isActive
  /\ priced.priceKobo = pricingCache.entries[priced.serviceCode].priceKobo
====
